---- MODULE Spec2Model ----
(***************************************************************************)
(* gitlab-runner-kubevirt: the VM lifecycle of the custom executor.        *)
(*                                                                         *)
(* Every invocation of the executor (prepare, cleanup, gc) is a separate   *)
(* short-lived process; the processes share nothing but the cluster (the   *)
(* VirtualMachineInstances and the Secrets of one namespace) and the wall  *)
(* clock.  A process is modelled as a slot of `proc`; each of its steps is *)
(* one call to the cluster API together with the local code around it.     *)
(***************************************************************************)
EXTENDS Integers, Sequences, FiniteSets, TLC

(***************************************************************************)
(* Bounds of the model.                                                    *)
(***************************************************************************)
MaxTime == 1        \* the wall clock runs over 0..MaxTime, in hours
MaxPrepares == 2    \* the runner starts prepare at most MaxPrepares times
NumProcs == 2       \* invocations that are alive at the same time

Procs == 1..NumProcs

(***************************************************************************)
(* Strings.  Every name, label and message is a TLA+ string, built the way *)
(* the code builds it.                                                     *)
(***************************************************************************)
labelPrefix == "io.kubevirt.gitlab-runner"

NotFoundErr == "NotFound"
AlreadyExistsErr == "AlreadyExists"
ForbiddenErr == "Forbidden"
DeadlineErr == "context deadline exceeded"
ErrWatchDone == "watch done"
DisappearedMsg == "Virtual Machine instance disappeared while the job was running!"
AmbiguousMsg == "Virtual Machine instance has ambiguous ID!"

\* a variant of the test on the error's text that looks at the wrapped cause
\* only, and so misses a message that is not wrapped
ErrContains_Cause(err, s) == Len(err) > 1 /\ err[2] = s

\* strings.Contains(err.Error(), s): an error is the chain of its wrapped
\* messages, and s is one whole message
ErrContains(err, s) == \E i \in 1..Len(err) : err[i] = s

\* fmt.Errorf("msg: %w", err)
Wrap(msg, err) == <<msg>> \o err

(***************************************************************************)
(* Inputs.  The identifiers, images, quantities and flags an invocation    *)
(* is started with.                                                        *)
(***************************************************************************)
ZeroCli ==
    [RunnerID |-> "", ProjectID |-> "", ConcurrentID |-> "", JobID |-> "",
     JobImage |-> "", MachineType |-> "", Architecture |-> "", VMTTL |-> "",
     CPURequest |-> "", CPULimit |-> "", MemoryRequest |-> "",
     MemoryLimit |-> "", EphemeralStorageRequest |-> "",
     EphemeralStorageLimit |-> ""]

\* the job of end-to-end scenario 1 and a second job of the same runner
Job42 ==
    [ZeroCli EXCEPT !.RunnerID = "r1", !.ProjectID = "p7",
                    !.ConcurrentID = "0", !.JobID = "42"]

Job43 == [Job42 EXCEPT !.JobID = "43"]

JobIdents == {Job42, Job43}

\* the job with what its CI variables set
WithImage(j) == [j EXCEPT !.JobImage = "registry/runner:1"]

ShortLived(j) ==
    [j EXCEPT !.JobImage = "registry/runner:1", !.VMTTL = "30m",
              !.CPURequest = "2", !.Architecture = "x86_64"]

BadQuantity(j) ==
    [j EXCEPT !.JobImage = "registry/runner:1", !.MemoryLimit = "lots"]

\* the RunConfig of run.go: shell, ssh.user, ssh.password, ssh.secretRef
ZeroRunConfig ==
    [Shell |-> "", SSH |-> [User |-> "", Password |-> "", SecretRef |-> ""]]

ZeroFlags ==
    [DefaultImage |-> "", DefaultImagePullPolicy |-> "",
     DefaultImagePullSecret |-> "", DefaultMachineType |-> "",
     DefaultArchitecture |-> "", DefaultCPURequest |-> "",
     DefaultCPULimit |-> "", DefaultMemoryRequest |-> "",
     DefaultMemoryLimit |-> "", DefaultEphemeralStorageRequest |-> "",
     DefaultEphemeralStorageLimit |-> "", DefaultTimezone |-> "",
     RunConfig |-> ZeroRunConfig,
     SkipIf |-> <<>>, DryRun |-> FALSE, MaxAge |-> 0]

\* the declared defaults of PrepareCmd, with --shell bash --ssh-user runner
PrepareDefaults ==
    [ZeroFlags EXCEPT !.DefaultCPURequest = "1", !.DefaultCPULimit = "1",
                      !.DefaultMemoryRequest = "1Gi",
                      !.DefaultMemoryLimit = "1Gi",
                      !.DefaultTimezone = "Etc/UTC",
                      !.RunConfig.Shell = "bash",
                      !.RunConfig.SSH.User = "runner"]

Windows ==
    [PrepareDefaults EXCEPT !.RunConfig.Shell = "pwsh",
                            !.RunConfig.SSH.Password = "typed"]

\* the invocations of prepare: the job's variables and the runner's flags
PrepareChoices ==
    {<<ShortLived(Job42), PrepareDefaults>>,
     <<WithImage(Job43), Windows>>,
     <<Job42, PrepareDefaults>>,
     <<BadQuantity(Job42), PrepareDefaults>>,
     <<WithImage(Job42), [PrepareDefaults EXCEPT !.RunConfig.Shell = "sh"]>>}

\* --skip-if entries: a phase name, or "!" followed by a phase name.  An
\* entry is the sequence of its parts, so that "!" can be told as a prefix.
SkipIfChoices ==
    {<<>>, << <<"Failed">> >>, << <<"Succeeded">>, <<"!", "Failed">> >>}

\* the invocations of cleanup: the job's identifiers and --skip-if
CleanupChoices == JobIdents \X SkipIfChoices

\* the phases the cluster reports in status.phase ("" right after Create)
Phases == {"", "Failed"}

\* the passwords crypto/rand can produce
Passwords == {"pwA"}

(***************************************************************************)
(* Time.  time.Now() is the clock value, which is also its UnixNano(); a    *)
(* label holds its RFC3339 text.                                           *)
(***************************************************************************)
Times == 0..MaxTime

FormatRFC3339(t) == "T" \o ToString(t)

\* time.Parse(time.RFC3339, s)
ParseRFC3339(s) ==
    IF \E t \in Times : FormatRFC3339(t) = s
    THEN [ok |-> TRUE, t |-> CHOOSE t \in Times : FormatRFC3339(t) = s]
    ELSE [ok |-> FALSE, t |-> 0]

\* time.ParseDuration(s): a duration is a number of half hours
ParseDuration(s) ==
    CASE s = "30m" -> [ok |-> TRUE, d |-> 1]
      [] s = "1h" -> [ok |-> TRUE, d |-> 2]
      [] s = "3h" -> [ok |-> TRUE, d |-> 6]
      [] OTHER -> [ok |-> FALSE, d |-> 0]

\* t1.Sub(t0), for two values of the clock
Sub(t1, t0) == (t1 - t0) * ParseDuration("1h").d

(***************************************************************************)
(* Identity (main.go).                                                     *)
(***************************************************************************)
\* digest(sha1.New, v...): the bytes fed to the hash, of which the id is the
\* hex digest.  binary.Write accepts fixed-size values only: for
\* len(v) and len(e), which are of type int, it writes nothing and returns
\* an error that digest drops; the strings and the int64 timestamp (8 bytes,
\* written here after a mark) are all that is hashed.
digest(strs, ts) ==
    strs[1] \o strs[2] \o strs[3] \o strs[4] \o "@" \o ToString(ts)

ZeroJctx ==
    [ID |-> "", BaseName |-> "", Image |-> "", ImagePullPolicy |-> "",
     ImagePullSecret |-> "", MachineType |-> "", Architecture |-> "",
     CPURequest |-> "", CPULimit |-> "", MemoryRequest |-> "",
     MemoryLimit |-> "", EphemeralStorageRequest |-> "",
     EphemeralStorageLimit |-> "", Timezone |-> "",
     ProjectID |-> "", JobID |-> "", CreatedAt |-> "", TTL |-> ""]

contextFromEnv(cli, t) ==
    [ZeroJctx EXCEPT
       !.CreatedAt = FormatRFC3339(t),
       !.BaseName = "runner-" \o cli.RunnerID \o "-project-" \o cli.ProjectID
                    \o "-concurrent-" \o cli.ConcurrentID,
       !.ID = digest(<<cli.RunnerID, cli.ProjectID, cli.ConcurrentID,
                       cli.JobID>>, t),
       !.Image = cli.JobImage,
       !.MachineType = cli.MachineType,
       !.Architecture = cli.Architecture,
       !.CPURequest = cli.CPURequest,
       !.CPULimit = cli.CPULimit,
       !.MemoryRequest = cli.MemoryRequest,
       !.MemoryLimit = cli.MemoryLimit,
       !.EphemeralStorageRequest = cli.EphemeralStorageRequest,
       !.EphemeralStorageLimit = cli.EphemeralStorageLimit,
       !.ProjectID = cli.ProjectID,
       !.JobID = cli.JobID,
       !.TTL = IF cli.VMTTL = "" THEN "3h" ELSE cli.VMTTL]

\* strconv.Atoi(s) for the values the environment is given here; a text
\* that is no decimal integer, or one out of the range of int, is an error
Atoi(s) ==
    CASE s = "0" -> [ok |-> TRUE, val |-> 0]
      [] s = "3" -> [ok |-> TRUE, val |-> 3]
      [] s = "75" -> [ok |-> TRUE, val |-> 75]
      [] s = "+2" -> [ok |-> TRUE, val |-> 2]
      [] s = "256" -> [ok |-> TRUE, val |-> 256]
      [] s = "-1" -> [ok |-> TRUE, val |-> 0 - 1]
      [] OTHER -> [ok |-> FALSE, val |-> 0]

\* os.Exit(status): the status the parent of the process sees is the low 8
\* bits of it (the build is for Linux)
osExit(status) == status % 256

\* a variant of envExit that exits with 0 when the value is no integer
envExit_ZeroOnBadValue(status, code) ==
    osExit(IF code # "" THEN Atoi(code).val ELSE status)

\* envExit(status, env), code being os.Getenv(env)
envExit(status, code) ==
    osExit(IF code # "" /\ Atoi(code).ok THEN Atoi(code).val ELSE status)

\* main after ctx.Run: systemFailureExit() when the handler returned an
\* error, the end of main otherwise
mainExit(err, code) == IF err # <<>> THEN envExit(2, code) ELSE 0

(***************************************************************************)
(* Credentials (security.go).                                              *)
(***************************************************************************)
passwordLength == 32

\* passwordChars, a character at a time
passwordChars ==
    <<"a", "b", "c", "d", "e", "f", "g", "h", "i", "j", "k", "l", "m",
      "n", "o", "p", "q", "r", "s", "t", "u", "v", "w", "x", "y", "z",
      "A", "B", "C", "D", "E", "F", "G", "H", "I", "J", "K", "L", "M",
      "N", "O", "P", "Q", "R", "S", "T", "U", "V", "W", "X", "Y", "Z",
      "0", "1", "2", "3", "4", "5", "6", "7", "8", "9">>

\* a variant that never returns less than passwordLength characters
GenerateSecurePassword_AtLeast32(length, rnd, broken) ==
    LET n == IF length <= passwordLength THEN passwordLength ELSE length
    IN  IF broken
        THEN [password |-> <<>>,
              err |-> <<"failed to generate random number", "EOF">>]
        ELSE [password |-> [i \in 1..n |-> passwordChars[rnd[i] + 1]],
              err |-> <<>>]

\* a variant without the default length
GenerateSecurePassword_NoDefault(length, rnd, broken) ==
    LET n == IF length <= 0 THEN 0 ELSE length
    IN  IF broken /\ n > 0
        THEN [password |-> <<>>,
              err |-> <<"failed to generate random number", "EOF">>]
        ELSE [password |-> [i \in 1..n |-> passwordChars[rnd[i] + 1]],
              err |-> <<>>]

\* GenerateSecurePassword(length): the password a character at a time.
\* rnd[i] is the i-th number rand.Int gives, below len(passwordChars);
\* broken: rand.Reader fails at the first number.
GenerateSecurePassword(length, rnd, broken) ==
    LET n == IF length <= 0 THEN passwordLength ELSE length
    IN  IF broken
        THEN [password |-> <<>>,
              err |-> <<"failed to generate random number", "EOF">>]
        ELSE [password |-> [i \in 1..n |-> passwordChars[rnd[i] + 1]],
              err |-> <<>>]

\* HashPasswordForCloudInit: a bcrypt hash is a text that begins with $2 and
\* is no password
HashPasswordForCloudInit(password) == "$2a$10$" \o password

\* a variant of the Linux user-data that carries the password as it is
generateLinuxCloudInit_Plain(username, password) ==
    <<"#cloud-config", "users:", "name:", username, "lock_passwd: false",
      "passwd:", password,
      "sudo: ALL=(ALL) NOPASSWD:ALL", "shell: /bin/bash",
      "ssh_pwauth: true", "chpasswd:", "expire: false">>

generateLinuxCloudInit(username, password) ==
    <<"#cloud-config", "users:", "name:", username, "lock_passwd: false",
      "passwd:", HashPasswordForCloudInit(password),
      "sudo: ALL=(ALL) NOPASSWD:ALL", "shell: /bin/bash",
      "ssh_pwauth: true", "chpasswd:", "expire: false">>

generateWindowsCloudInit(username, password) ==
    <<"#cloud-config", "users:", "name:", username, "passwd:", password,
      "groups: Administrators">>

\* a variant that takes every shell but pwsh for a Linux shell
GenerateCloudInitUserData_LinuxByDefault(shell, username, password) ==
    CASE shell = "pwsh" ->
           [err |-> <<>>, doc |-> generateWindowsCloudInit(username, password)]
      [] OTHER ->
           [err |-> <<>>, doc |-> generateLinuxCloudInit(username, password)]

\* a document is the sequence of its lines and values
GenerateCloudInitUserData(shell, username, password) ==
    CASE shell = "bash" ->
           [err |-> <<>>, doc |-> generateLinuxCloudInit(username, password)]
      [] shell = "pwsh" ->
           [err |-> <<>>, doc |-> generateWindowsCloudInit(username, password)]
      [] OTHER -> [err |-> <<"unsupported shell">>, doc |-> <<>>]

\* strings.Contains(doc, s) for a value s
DocContains(doc, s) == \E i \in 1..Len(doc) : doc[i] = s

(***************************************************************************)
(* The objects of the cluster (k8s.go).                                    *)
(***************************************************************************)
\* json.Marshal(rc) and the annotation a VM lacks
Marshal(rc) == [json |-> TRUE, doc |-> rc]

NoAnnotation == [json |-> FALSE, doc |-> ZeroRunConfig]

\* a variant of the parse that reads what it can of a text that is no JSON
Unmarshal_Lenient(a) == [err |-> FALSE, rc |-> a.doc]

\* json.Unmarshal([]byte(annotation), &rc)
Unmarshal(a) ==
    IF a.json THEN [err |-> FALSE, rc |-> a.doc]
    ELSE [err |-> TRUE, rc |-> ZeroRunConfig]

\* resource.ParseQuantity
ParseQuantityOK(s) == s \in {"1", "2", "500m", "1Gi", "2Gi"}

\* the entries of toParse, in order
toParse(jctx) ==
    <<[List |-> "Requests", Key |-> "cpu", Value |-> jctx.CPURequest],
      [List |-> "Limits", Key |-> "cpu", Value |-> jctx.CPULimit],
      [List |-> "Requests", Key |-> "memory", Value |-> jctx.MemoryRequest],
      [List |-> "Limits", Key |-> "memory", Value |-> jctx.MemoryLimit],
      [List |-> "Requests", Key |-> "ephemeral-storage",
       Value |-> jctx.EphemeralStorageRequest],
      [List |-> "Limits", Key |-> "ephemeral-storage",
       Value |-> jctx.EphemeralStorageLimit]>>

NoVM ==
    [name |-> "",
     labels |-> [id |-> "", createdAt |-> "", ttl |-> ""],
     annotations |-> [projectID |-> "", jobID |-> "",
                      runConfig |-> NoAnnotation],
     spec |-> [resources |-> {}, machineType |-> "", cpuModel |-> "",
               timezone |-> "", image |-> "", imagePullPolicy |-> "",
               imagePullSecret |-> "", userDataSecretRef |-> ""],
     status |-> [phase |-> ""]]

\* CreateJobVM up to its call of Create: the error it returns before any
\* call, or the object it posts (generateName is completed by the cluster)
instanceTemplate(jctx, rc, secretName) ==
    LET e == toParse(jctx)
        bad == {i \in 1..Len(e) :
                  e[i].Value # "" /\ ~ParseQuantityOK(e[i].Value)}
        first == CHOOSE i \in bad : \A j \in bad : i <= j
    IN  IF bad # {}
        THEN [err |-> Wrap("parsing " \o e[first].Key \o " quantity",
                           <<"quantities must match the regular expression">>),
              vm |-> NoVM]
        ELSE IF jctx.Image = ""
        THEN [err |-> <<"must specify a containerdisk image">>, vm |-> NoVM]
        ELSE [err |-> <<>>,
              vm |-> [name |-> jctx.BaseName,
                      labels |-> [id |-> jctx.ID,
                                  createdAt |-> jctx.CreatedAt,
                                  ttl |-> jctx.TTL],
                      annotations |-> [projectID |-> jctx.ProjectID,
                                       jobID |-> jctx.JobID,
                                       runConfig |-> Marshal(rc)],
                      spec |-> [resources |->
                                  {<<e[i].List, e[i].Key, e[i].Value>> :
                                     i \in {j \in 1..Len(e) : e[j].Value # ""}},
                                machineType |-> jctx.MachineType,
                                cpuModel |-> IF jctx.Architecture # ""
                                             THEN "host-passthrough" ELSE "",
                                timezone |-> jctx.Timezone,
                                image |-> jctx.Image,
                                imagePullPolicy |-> jctx.ImagePullPolicy,
                                imagePullSecret |-> jctx.ImagePullSecret,
                                userDataSecretRef |-> secretName],
                      status |-> [phase |-> ""]]]

\* a variant of the Secret that is labelled with the name of the job's VMs
\* instead of the job's id
vmSecret_Mislabelled(jctx, user, password, cloudInitUserData) ==
    [name |-> "vm-creds-" \o jctx.ID,
     labels |-> [id |-> jctx.BaseName, type |-> "vm-credentials"],
     data |-> [user |-> user, password |-> password,
               userdata |-> cloudInitUserData]]

\* the Secret CreateVMSecret posts
vmSecret(jctx, user, password, cloudInitUserData) ==
    [name |-> "vm-creds-" \o jctx.ID,
     labels |-> [id |-> jctx.ID, type |-> "vm-credentials"],
     data |-> [user |-> user, password |-> password,
               userdata |-> cloudInitUserData]]

\* Selector and the List of FindJobVM: the VMs whose id label is jctx.ID
Selected(vmset, jctx) == {v \in vmset : v.labels.id = jctx.ID}

\* a variant of FindJobVM that takes one of the VMs when there are several
FindJobVM_First(items) ==
    IF Cardinality(items) = 0
    THEN [err |-> <<DisappearedMsg>>, vm |-> NoVM]
    ELSE [err |-> <<>>, vm |-> CHOOSE v \in items : TRUE]

\* FindJobVM on the result of its List
FindJobVM(items) ==
    IF Cardinality(items) = 0
    THEN [err |-> <<DisappearedMsg>>, vm |-> NoVM]
    ELSE IF Cardinality(items) > 1
    THEN [err |-> <<AmbiguousMsg>>, vm |-> NoVM]
    ELSE [err |-> <<>>, vm |-> CHOOSE v \in items : TRUE]

\* string(vm.Status.Phase) in the parts of an entry: the empty string has
\* no part
phaseString(phase) == IF phase = "" THEN <<>> ELSE <<phase>>

\* a variant of the check that knows no negation
skipIfCheck_NoNegation(skipIf, phase) == phaseString(phase) = skipIf

\* the check of one --skip-if entry against status.phase
skipIfCheck(skipIf, phase) ==
    IF Len(skipIf) > 0 /\ skipIf[1] = "!"
    THEN phaseString(phase) # Tail(skipIf)
    ELSE phaseString(phase) = skipIf

\* the loop over cmd.SkipIf: the first entry that matches, 0 when none does
skipIfMatch(entries, phase) ==
    IF \E i \in 1..Len(entries) : skipIfCheck(entries[i], phase)
    THEN CHOOSE i \in 1..Len(entries) :
           /\ skipIfCheck(entries[i], phase)
           /\ \A j \in 1..(i - 1) : ~skipIfCheck(entries[j], phase)
    ELSE 0

(***************************************************************************)
(* State.                                                                  *)
(***************************************************************************)
VARIABLES
    now,        \* the wall clock
    vms,        \* the VirtualMachineInstances of the namespace
    secrets,    \* the Secrets of the namespace
    prepares,   \* how many times prepare was started
    created,    \* how many VMs the cluster has created (for generateName)
    proc        \* the invocations: proc[p] is the state of one process,
                \* with nitems = len(list.Items) once its List has returned
                \* (and listed = vms.Items in gc)

vars == <<now, vms, secrets, prepares, created, proc>>

\* WatchJobVM before its call: whether initial is a VM (not nil) and
\* initial.ResourceVersion, ctx.Err() of the
\* context it is given, the events its streams have delivered, the streams
\* it has opened that have neither ended nor been stopped, and what it has
\* done so far, in order
ZeroWatch ==
    [hasInitial |-> FALSE, rv |-> "", ctxErr |-> "", events |-> 0,
     open |-> 0, log |-> <<>>]

\* no function is being applied: f is the function, args what it is given,
\* ret what it has returned once it is applied
ZeroFn == [f |-> "", args |-> <<>>, applied |-> FALSE, ret |-> <<>>]

\* a process slot no invocation occupies
IdleProc ==
    [cmd |-> "idle", pc |-> "idle", started |-> 0, cli |-> ZeroCli,
     flags |-> ZeroFlags, jctx |-> ZeroJctx,
     randomPassword |-> "", cloudInitUserData |-> <<>>,
     secretName |-> "", rc |-> ZeroRunConfig, nitems |-> -1, vm |-> NoVM,
     ip |-> "",
     pending |-> <<>>, listed |-> <<>>, items |-> <<>>, gcNow |-> 0,
     deletedCount |-> 0, skippedCount |-> 0,
     calls |-> <<>>, watched |-> FALSE, w |-> ZeroWatch, fn |-> ZeroFn,
     done |-> FALSE, err |-> <<>>, out |-> {}]

Init ==
    /\ now = 0
    /\ vms = {}
    /\ secrets = {}
    /\ prepares = 0
    /\ created = 0
    /\ proc = [p \in Procs |-> IdleProc]

\* the process returns err from its handler (nil is <<>>) and exits
Finish(pr, err) == [pr EXCEPT !.pc = "done", !.done = TRUE, !.err = err]

\* one call of the cluster API as the process made it (a List, a Create or
\* a Delete; whether it opened a watch stream is in `watched`); err is "" on
\* success
Call(op, name, err) == [op |-> op, name |-> name, err |-> err]

\* the errors a call can fail with for reasons outside the namespace
ApiFailures == {ForbiddenErr}

(***************************************************************************)
(* prepare.                                                                *)
(***************************************************************************)
\* a variant of the merge in which a default that is set replaces the value
\* of the job
mergeDefaults_DefaultsWin(jctx, cmd) ==
    [jctx EXCEPT
       !.CPURequest = IF cmd.DefaultCPURequest # ""
                      THEN cmd.DefaultCPURequest ELSE @,
       !.Image = IF cmd.DefaultImage # "" THEN cmd.DefaultImage ELSE @]

\* the defaults prepare merges into the job context
mergeDefaults(jctx, cmd) ==
    [jctx EXCEPT
       !.CPURequest = IF @ = "" THEN cmd.DefaultCPURequest ELSE @,
       !.CPULimit = IF @ = "" THEN cmd.DefaultCPULimit ELSE @,
       !.MemoryRequest = IF @ = "" THEN cmd.DefaultMemoryRequest ELSE @,
       !.MemoryLimit = IF @ = "" THEN cmd.DefaultMemoryLimit ELSE @,
       !.EphemeralStorageRequest =
           IF @ = "" THEN cmd.DefaultEphemeralStorageRequest ELSE @,
       !.EphemeralStorageLimit =
           IF @ = "" THEN cmd.DefaultEphemeralStorageLimit ELSE @,
       !.ImagePullPolicy = IF @ = "" THEN cmd.DefaultImagePullPolicy ELSE @,
       !.ImagePullSecret = IF @ = "" THEN cmd.DefaultImagePullSecret ELSE @,
       !.Image = IF @ = "" THEN cmd.DefaultImage ELSE @,
       !.Timezone = IF @ = "" THEN cmd.DefaultTimezone ELSE @,
       !.MachineType = IF @ = "" THEN cmd.DefaultMachineType ELSE @,
       !.Architecture = IF @ = "" THEN cmd.DefaultArchitecture ELSE @]

\* a variant of DeleteSSHSecret that returns every error of the Delete call
DeleteSSHSecret_Strict(apiErr) ==
    IF apiErr # "" THEN <<"failed to delete secret", apiErr>> ELSE <<>>

\* DeleteSSHSecret: what it returns for the outcome of the Delete call
DeleteSSHSecret(apiErr) ==
    IF apiErr # "" /\ apiErr # NotFoundErr
    THEN <<"failed to delete secret", apiErr>>
    ELSE <<>>

\* the outcomes of Secrets(namespace).Delete(name)
SecretDeleteOutcomes(name) ==
    (IF \E s \in secrets : s.name = name THEN {""} ELSE {NotFoundErr})
    \cup ApiFailures

\* the outcomes of VirtualMachineInstance(namespace).Delete(name)
VMDeleteOutcomes(name) ==
    (IF \E v \in vms : v.name = name THEN {""} ELSE {NotFoundErr})
    \cup ApiFailures

\* main and the head of PrepareCmd.Run, up to its first call of the cluster:
\* the job context, the client, the defaults, the password, the user-data
StartPrepare(p, cli, cmd) ==
    /\ proc[p].cmd = "idle"
    /\ prepares < MaxPrepares
    /\ prepares' = prepares + 1
    /\ \E clientOK \in BOOLEAN, configOK \in BOOLEAN,
          pw \in Passwords \cup {""} :
         LET pr0 == [IdleProc EXCEPT !.cmd = "prepare", !.started = now,
                                     !.cli = cli, !.flags = cmd,
                                     !.jctx = contextFromEnv(cli, now)]
             pr1 == [pr0 EXCEPT !.jctx = mergeDefaults(pr0.jctx, cmd)]
             ud == GenerateCloudInitUserData(cmd.RunConfig.Shell,
                                             cmd.RunConfig.SSH.User, pw)
         IN  proc' = [proc EXCEPT ![p] =
               IF ~clientOK
               THEN Finish(pr0, <<"invalid configuration">>)
               ELSE IF pw = ""
               THEN Finish(pr1, Wrap("failed to generate password",
                                 <<"failed to generate random number">>))
               ELSE IF ud.err # <<>>
               THEN Finish(pr1, Wrap("failed to generate cloud-init", ud.err))
               ELSE IF ~configOK
               THEN Finish(pr1, Wrap("failed to get kubernetes config",
                                     <<"invalid configuration">>))
               ELSE [pr1 EXCEPT !.pc = "p_secret",
                                !.randomPassword = pw,
                                !.cloudInitUserData = ud.doc]]
    /\ UNCHANGED <<now, vms, secrets, created>>

\* a variant that leaves the password of the flags in the RunConfig
referTo_KeepsPassword(rc, name) == [rc EXCEPT !.SSH.SecretRef = name]

\* rc := cmd.RunConfig; rc.SSH.Password = ""; rc.SSH.SecretRef = secret.Name
referTo(rc, name) ==
    [rc EXCEPT !.SSH.Password = "", !.SSH.SecretRef = name]

\* CreateVMSecret, and on success the RunConfig that refers to the Secret
PrepareCreateSecret(p) ==
    LET pr == proc[p]
        secret == vmSecret(pr.jctx, pr.flags.RunConfig.SSH.User,
                           pr.randomPassword, pr.cloudInitUserData)
        outcomes == (IF \E s \in secrets : s.name = secret.name
                     THEN {AlreadyExistsErr} ELSE {""}) \cup ApiFailures
    IN  /\ pr.pc = "p_secret"
        /\ \E e \in outcomes :
             IF e # ""
             THEN /\ proc' = [proc EXCEPT ![p] =
                       Finish([pr EXCEPT !.calls =
                                 Append(@, Call("Secret.Create", secret.name, e))],
                              Wrap("failed to create VM secret",
                                   <<"failed to create secret", e>>))]
                  /\ UNCHANGED secrets
             ELSE /\ secrets' = secrets \cup {secret}
                  /\ proc' = [proc EXCEPT ![p] =
                       [pr EXCEPT
                          !.calls = Append(@, Call("Secret.Create",
                                                   secret.name, "")),
                          !.secretName = secret.name,
                          !.out = @ \cup {"Created VM credentials secret:",
                                          secret.name},
                          !.rc = referTo(pr.flags.RunConfig, secret.name),
                          !.pc = "p_vm"]]
        /\ UNCHANGED <<now, vms, prepares, created>>

\* the events a watch stream can deliver next: the channel is closed, an
\* event of empty type, an Error event, or a VM event with its status
WatchEvents ==
    {[type |-> t, ip |-> "", ready |-> FALSE] : t \in {"closed", "", "Error"}}
    \cup [type : {"Added", "Modified", "Deleted"},
          ip : {"", "10.0.0.5"}, ready : BOOLEAN]

\* what is said of the ready VM before the dial
readyReport(pr, ip) ==
    {"Virtual Machine instance is ready.", "Name:", pr.vm.name,
     "Image:", pr.jctx.Image, "IP:", ip}
    \cup (IF pr.jctx.MachineType # ""
          THEN {"Machine Type:", pr.jctx.MachineType} ELSE {})
    \cup (IF pr.jctx.Architecture # ""
          THEN {"Architecture:", pr.jctx.Architecture} ELSE {})

\* WatchJobVM with prepare's callback, and the one DialSSH after it: the
\* ways prepare can end once its VM is created (a call of Watch fails, the
\* first one or a later one; the deadline passes; the VM is ready and the
\* dial ends).  The streams it opens and the events it receives change
\* nothing in the cluster.
prepareWatch(pr) ==
    {Finish(pr, <<e>>) : e \in ApiFailures}
    \cup {Finish([pr EXCEPT !.watched = TRUE], <<e>>) : e \in ApiFailures}
    \cup {Finish([pr EXCEPT !.watched = TRUE], <<DeadlineErr>>)}
    \cup {Finish([pr EXCEPT !.watched = TRUE, !.ip = ev.ip,
                            !.out = @ \cup readyReport(pr, ev.ip)], dial) :
            ev \in {e \in WatchEvents :
                      /\ e.type \notin {"closed", "", "Error"}
                      /\ e.ip # "" /\ e.ready},
            dial \in {<<>>, <<"ssh: handshake failed">>, <<DeadlineErr>>}}

\* CreateJobVM: it fails before its call of Create, or the call fails, or
\* the cluster completes the name and stores the VM and prepare waits for
\* the VM to be ready
PrepareCreateVM(p) ==
    LET pr == proc[p]
        t == instanceTemplate(pr.jctx, pr.rc, pr.secretName)
        said == pr.out \cup {"Creating Virtual Machine instance"}
    IN  /\ pr.pc = "p_vm"
        /\ IF t.err # <<>>
           THEN /\ proc' = [proc EXCEPT ![p] =
                     [pr EXCEPT !.out = said, !.pending = t.err,
                                !.pc = "p_rollback"]]
                /\ UNCHANGED <<vms, created>>
           ELSE \/ \E e \in ApiFailures :
                     /\ proc' = [proc EXCEPT ![p] =
                          [pr EXCEPT !.out = said, !.pending = <<e>>,
                                     !.calls = Append(@, Call("VM.Create",
                                                        t.vm.name, e)),
                                     !.pc = "p_rollback"]]
                     /\ UNCHANGED <<vms, created>>
                \/ LET vm == [t.vm EXCEPT
                                   !.name = @ \o "x" \o ToString(created + 1)]
                   IN  /\ vms' = vms \cup {vm}
                       /\ created' = created + 1
                       /\ \E end \in prepareWatch(
                             [pr EXCEPT
                                !.out = said \cup
                                  {"Waiting for Virtual Machine instance",
                                   vm.name},
                                !.vm = vm,
                                !.calls = Append(@, Call("VM.Create",
                                                         vm.name, ""))]) :
                            proc' = [proc EXCEPT ![p] = end]
        /\ UNCHANGED <<now, secrets, prepares>>

\* a variant of the rollback that returns the error of DeleteSSHSecret when
\* there is one
PrepareRollback_ReturnsDeleteError(p) ==
    LET pr == proc[p]
    IN  /\ pr.pc = "p_rollback"
        /\ \E e \in SecretDeleteOutcomes(pr.secretName) :
             /\ secrets' = IF e = ""
                           THEN {s \in secrets : s.name # pr.secretName}
                           ELSE secrets
             /\ proc' = [proc EXCEPT ![p] =
                  Finish([pr EXCEPT !.calls =
                            Append(@, Call("Secret.Delete", pr.secretName, e))],
                         IF DeleteSSHSecret(e) # <<>>
                         THEN DeleteSSHSecret(e) ELSE pr.pending)]
        /\ UNCHANGED <<now, vms, prepares, created>>

\* the rollback after CreateJobVM failed: DeleteSSHSecret, whose result is
\* dropped, and the return of CreateJobVM's error
PrepareRollback(p) ==
    LET pr == proc[p]
    IN  /\ pr.pc = "p_rollback"
        /\ \E e \in SecretDeleteOutcomes(pr.secretName) :
             /\ secrets' = IF e = ""
                           THEN {s \in secrets : s.name # pr.secretName}
                           ELSE secrets
             /\ proc' = [proc EXCEPT ![p] =
                  Finish([pr EXCEPT !.calls =
                            Append(@, Call("Secret.Delete", pr.secretName, e))],
                         pr.pending)]
        /\ UNCHANGED <<now, vms, prepares, created>>

(***************************************************************************)
(* cleanup.                                                                *)
(***************************************************************************)
\* main for cleanup: the job context and the client
StartCleanup(p, cli, skipIf) ==
    /\ proc[p].cmd = "idle"
    /\ \E clientOK \in BOOLEAN :
         LET pr0 == [IdleProc EXCEPT !.cmd = "cleanup", !.started = now,
                                     !.cli = cli,
                                     !.flags = [ZeroFlags EXCEPT
                                                  !.SkipIf = skipIf],
                                     !.jctx = contextFromEnv(cli, now)]
         IN  proc' = [proc EXCEPT ![p] =
               IF clientOK THEN [pr0 EXCEPT !.pc = "c_find"]
               ELSE Finish(pr0, <<"invalid configuration">>)]
    /\ UNCHANGED <<now, vms, secrets, prepares, created>>

\* CleanupCmd.Run from FindJobVM to its first Delete call
CleanupFind(p) ==
    LET pr == proc[p]
        r == FindJobVM(Selected(vms, pr.jctx))
        m == skipIfMatch(pr.flags.SkipIf, r.vm.status.phase)
        u == Unmarshal(r.vm.annotations.runConfig)
        listed == [pr EXCEPT
                     !.calls = Append(@, Call("VM.List", pr.jctx.ID, "")),
                     !.nitems = Cardinality(Selected(vms, pr.jctx))]
    IN  /\ pr.pc = "c_find"
        /\ \/ \E e \in ApiFailures :
                proc' = [proc EXCEPT ![p] =
                  Finish([pr EXCEPT !.calls =
                            Append(@, Call("VM.List", pr.jctx.ID, e))],
                         Wrap("cleanup error", <<e>>))]
           \/ /\ r.err # <<>>
              /\ proc' = [proc EXCEPT ![p] =
                   IF ~ErrContains(r.err, DisappearedMsg)
                   THEN Finish(listed, Wrap("cleanup error", r.err))
                   ELSE Finish([listed EXCEPT !.out = @ \cup
                          {"Skipping cleanup of Virtual Machine instance because none were found"}],
                        <<>>)]
           \/ /\ r.err = <<>>
              /\ m # 0
              /\ proc' = [proc EXCEPT ![p] =
                   Finish([listed EXCEPT !.vm = r.vm, !.out = @ \cup
                             {"Skipping cleanup of Virtual Machine instance",
                              r.vm.name, "because of --skip-if"}],
                          <<>>)]
           \/ /\ r.err = <<>>
              /\ m = 0
              /\ \E configOK \in BOOLEAN :
                   LET found == [listed EXCEPT !.vm = r.vm, !.out = @ \cup
                                   {"Deleting Virtual Machine instance",
                                    r.vm.name}]
                   IN  proc' = [proc EXCEPT ![p] =
                         IF u.err
                         THEN [found EXCEPT !.pc = "c_vmdel", !.out = @ \cup
                                 {"Warning: failed to unmarshal RunConfig for secret cleanup"}]
                         ELSE IF u.rc.SSH.SecretRef = ""
                         THEN [found EXCEPT !.pc = "c_vmdel"]
                         ELSE IF ~configOK
                         THEN [found EXCEPT !.pc = "c_vmdel", !.out = @ \cup
                                 {"Warning: failed to get kubernetes config for secret cleanup"}]
                         ELSE [found EXCEPT !.pc = "c_secret",
                                            !.secretName = u.rc.SSH.SecretRef]]
        /\ UNCHANGED <<now, vms, secrets, prepares, created>>

\* a variant of cleanup that gives up when DeleteSSHSecret fails
CleanupDeleteSecret_Aborts(p) ==
    LET pr == proc[p]
    IN  /\ pr.pc = "c_secret"
        /\ \E e \in SecretDeleteOutcomes(pr.secretName) :
             LET called == [pr EXCEPT !.calls =
                              Append(@, Call("Secret.Delete", pr.secretName, e))]
             IN  /\ secrets' = IF e = ""
                               THEN {s \in secrets : s.name # pr.secretName}
                               ELSE secrets
                 /\ proc' = [proc EXCEPT ![p] =
                      IF DeleteSSHSecret(e) # <<>>
                      THEN Finish(called, DeleteSSHSecret(e))
                      ELSE [called EXCEPT !.pc = "c_vmdel"]]
        /\ UNCHANGED <<now, vms, prepares, created>>

\* DeleteSSHSecret in cleanup: a failure is a warning
CleanupDeleteSecret(p) ==
    LET pr == proc[p]
    IN  /\ pr.pc = "c_secret"
        /\ \E e \in SecretDeleteOutcomes(pr.secretName) :
             /\ secrets' = IF e = ""
                           THEN {s \in secrets : s.name # pr.secretName}
                           ELSE secrets
             /\ proc' = [proc EXCEPT ![p] =
                  [pr EXCEPT
                     !.calls = Append(@, Call("Secret.Delete", pr.secretName, e)),
                     !.out = @ \cup
                       (IF DeleteSSHSecret(e) # <<>>
                        THEN {"Warning: failed to delete SSH secret",
                              pr.secretName} \cup {e}
                        ELSE {"Deleted SSH credentials secret:",
                              pr.secretName}),
                     !.pc = "c_vmdel"]]
        /\ UNCHANGED <<now, vms, prepares, created>>

\* WatchJobVM with cleanup's callback: the ways cleanup can end once its
\* VM is deleted
cleanupWatch(pr) ==
    {Finish(pr, <<e>>) : e \in ApiFailures}
    \cup {Finish([pr EXCEPT !.watched = TRUE], <<e>>) : e \in ApiFailures}
    \cup {Finish([pr EXCEPT !.watched = TRUE], <<DeadlineErr>>)}
    \cup {Finish([pr EXCEPT !.watched = TRUE, !.out = @ \cup
                    (IF ev.type = "Error"
                     THEN {"Couldn't wait for Virtual Machine instance to go away, abandoning it"}
                     ELSE {})],
                 <<>>) :
            ev \in {e \in WatchEvents : e.type \in {"Error", "Deleted"}}}

\* the Delete of the VM: its error is returned as it is, and after a
\* Delete that succeeded cleanup waits for the VM to go away
CleanupDeleteVM(p) ==
    LET pr == proc[p]
    IN  /\ pr.pc = "c_vmdel"
        /\ \E e \in VMDeleteOutcomes(pr.vm.name) :
             LET called == [pr EXCEPT !.calls =
                              Append(@, Call("VM.Delete", pr.vm.name, e))]
             IN  /\ vms' = IF e = "" THEN {v \in vms : v.name # pr.vm.name}
                           ELSE vms
                 /\ \E end \in (IF e # "" THEN {Finish(called, <<e>>)}
                                 ELSE cleanupWatch(called)) :
                      proc' = [proc EXCEPT ![p] = end]
        /\ UNCHANGED <<now, secrets, prepares, created>>

(***************************************************************************)
(* gc.                                                                     *)
(***************************************************************************)
\* the invocations of gc: --dry-run or not, with the default --max-age (every
\* VM of prepare has a ttl label that parses, so that --max-age is not read)
GCChoices == BOOLEAN \X {ParseDuration("3h").d}

\* a variant of the ttl that never reads the ttl label
gcTTL_MaxAgeOnly(vm, maxAge) == maxAge

\* the ttl gc uses for a VM: its ttl label when it parses, --max-age otherwise
gcTTL(vm, maxAge) ==
    IF vm.labels.ttl # "" /\ ParseDuration(vm.labels.ttl).ok
    THEN ParseDuration(vm.labels.ttl).d
    ELSE maxAge

\* the VM has a created-at label that parses
gcDated(vm) ==
    vm.labels.createdAt # "" /\ ParseRFC3339(vm.labels.createdAt).ok

\* a variant of the test of expiry that takes a VM whose age is its ttl
gcExpired_NotStrict(vm, t, maxAge) ==
    Sub(t, ParseRFC3339(vm.labels.createdAt).t) >= gcTTL(vm, maxAge)

\* age := now.Sub(createdAt); expired := age > ttl
gcExpired(vm, t, maxAge) ==
    Sub(t, ParseRFC3339(vm.labels.createdAt).t) > gcTTL(vm, maxAge)

\* a variant of the List of gc that has no label selector
gcSelected_All(vmset) == vmset

\* the List of gc: the VMs that have the id label (a label that is missing
\* is the empty text)
gcSelected(vmset) == {v \in vmset : v.labels.id # ""}

\* the orders a List can return a set of VMs in
Orders(S) ==
    {f \in [1..Cardinality(S) -> S] :
       \A i, j \in 1..Cardinality(S) : f[i] = f[j] => i = j}

\* a variant of the test of --dry-run that never holds
gcDryRun_Never(pr) == FALSE

\* if cmd.DryRun, for an expired VM
gcDryRun(pr) == pr.flags.DryRun

\* the loop of GCCmd.Run over the items it has not visited yet, up to its
\* next Delete call or to the end of the pass
RECURSIVE gcScan(_)
gcScan(pr) ==
    IF pr.items = <<>>
    THEN Finish([pr EXCEPT !.out = @ \cup
                   {IF pr.flags.DryRun
                    THEN "Garbage collection dry-run complete:"
                    ELSE "Garbage collection complete:",
                    "deleted " \o ToString(pr.deletedCount),
                    "skipped " \o ToString(pr.skippedCount)}],
                <<>>)
    ELSE LET vm == Head(pr.items)
             u == Unmarshal(vm.annotations.runConfig)
         IN  IF ~gcDated(vm)
             THEN gcScan([pr EXCEPT !.skippedCount = @ + 1,
                                    !.items = Tail(@),
                                    !.out = @ \cup {"skipping", vm.name}])
             ELSE IF ~gcExpired(vm, pr.gcNow, pr.flags.MaxAge)
             THEN gcScan([pr EXCEPT !.items = Tail(@),
                                    !.out = @ \cup {"still valid", vm.name}])
             ELSE IF gcDryRun(pr)
             THEN gcScan([pr EXCEPT !.deletedCount = @ + 1,
                                    !.items = Tail(@),
                                    !.out = @ \cup {"[DRY-RUN] Would delete VM",
                                                    vm.name}])
             ELSE IF ~u.err /\ u.rc.SSH.SecretRef # ""
             THEN [pr EXCEPT !.pc = "gc_secret", !.vm = vm,
                             !.secretName = u.rc.SSH.SecretRef,
                             !.out = @ \cup {"Deleting expired VM", vm.name}]
             ELSE [pr EXCEPT !.pc = "gc_vmdel", !.vm = vm,
                             !.out = @ \cup {"Deleting expired VM", vm.name}]

\* main for gc, and the configuration and the client GCCmd.Run builds
StartGC(p, dryRun, maxAge) ==
    /\ proc[p].cmd = "idle"
    /\ \E configOK \in BOOLEAN :
         LET pr0 == [IdleProc EXCEPT !.cmd = "gc", !.started = now,
                                     !.flags = [ZeroFlags EXCEPT
                                                  !.DryRun = dryRun,
                                                  !.MaxAge = maxAge],
                                     !.jctx = contextFromEnv(ZeroCli, now)]
         IN  proc' = [proc EXCEPT ![p] =
               IF configOK THEN [pr0 EXCEPT !.pc = "gc_list"]
               ELSE Finish(pr0, Wrap("failed to get kubeconfig",
                                     <<"invalid configuration">>))]
    /\ UNCHANGED <<now, vms, secrets, prepares, created>>

\* the List of the VMs that have the id label, the clock, and the loop up
\* to the first Delete call
GCList(p) ==
    LET pr == proc[p]
    IN  /\ pr.pc = "gc_list"
        /\ \/ \E e \in ApiFailures :
                proc' = [proc EXCEPT ![p] =
                  Finish([pr EXCEPT !.calls =
                            Append(@, Call("VM.List", labelPrefix \o "/id", e))],
                         Wrap("failed to list VMs", <<e>>))]
           \/ \E order \in Orders(gcSelected(vms)) :
                proc' = [proc EXCEPT ![p] =
                  gcScan([pr EXCEPT
                            !.calls = Append(@, Call("VM.List",
                                                     labelPrefix \o "/id", "")),
                            !.listed = order, !.items = order,
                            !.nitems = Len(order),
                            !.gcNow = now,
                            !.out = @ \cup {"Scanning VMs for garbage collection"}])]
        /\ UNCHANGED <<now, vms, secrets, prepares, created>>

\* DeleteSSHSecret for an expired VM: a failure is a warning
GCDeleteSecret(p) ==
    LET pr == proc[p]
    IN  /\ pr.pc = "gc_secret"
        /\ \E e \in SecretDeleteOutcomes(pr.secretName) :
             /\ secrets' = IF e = ""
                           THEN {s \in secrets : s.name # pr.secretName}
                           ELSE secrets
             /\ proc' = [proc EXCEPT ![p] =
                  [pr EXCEPT
                     !.calls = Append(@, Call("Secret.Delete", pr.secretName, e)),
                     !.out = @ \cup
                       (IF DeleteSSHSecret(e) # <<>>
                        THEN {"Warning: failed to delete SSH secret",
                              pr.secretName} \cup {e}
                        ELSE {"Deleted SSH credentials secret:",
                              pr.secretName}),
                     !.pc = "gc_vmdel"]]
        /\ UNCHANGED <<now, vms, prepares, created>>

\* a variant of the count that takes the VM.Delete calls that failed too
deleted_Attempts(count, e) == count + 1

\* deletedCount++, which a VM.Delete that failed does not reach
deleted(count, e) == IF e = "" THEN count + 1 ELSE count

\* a variant of the Delete of an expired VM in which a failure ends the pass
GCDeleteVM_StopsOnFailure(p) ==
    LET pr == proc[p]
    IN  /\ pr.pc = "gc_vmdel"
        /\ \E e \in VMDeleteOutcomes(pr.vm.name) :
             LET called == [pr EXCEPT
                              !.calls = Append(@, Call("VM.Delete",
                                                       pr.vm.name, e)),
                              !.items = Tail(@)]
             IN  /\ vms' = IF e = "" THEN {v \in vms : v.name # pr.vm.name}
                           ELSE vms
                 /\ proc' = [proc EXCEPT ![p] =
                      IF e # "" THEN Finish(called, <<e>>)
                      ELSE gcScan([called EXCEPT !.deletedCount = @ + 1])]
        /\ UNCHANGED <<now, secrets, prepares, created>>

\* the Delete of an expired VM, and the loop up to the next Delete call
GCDeleteVM(p) ==
    LET pr == proc[p]
    IN  /\ pr.pc = "gc_vmdel"
        /\ \E e \in VMDeleteOutcomes(pr.vm.name) :
             LET called == [pr EXCEPT
                              !.calls = Append(@, Call("VM.Delete",
                                                       pr.vm.name, e)),
                              !.items = Tail(@)]
             IN  /\ vms' = IF e = "" THEN {v \in vms : v.name # pr.vm.name}
                           ELSE vms
                 /\ proc' = [proc EXCEPT ![p] =
                      IF e # ""
                      THEN gcScan([called EXCEPT
                                     !.deletedCount = deleted(@, e),
                                     !.out = @ \cup
                                     {"Failed to delete VM", pr.vm.name} \cup {e}])
                      ELSE gcScan([called EXCEPT
                                     !.deletedCount = deleted(@, e)])]
        /\ UNCHANGED <<now, secrets, prepares, created>>

(***************************************************************************)
(* The world around the invocations.                                       *)
(***************************************************************************)
\* time passes
Tick ==
    /\ now < MaxTime
    /\ now' = now + 1
    /\ UNCHANGED <<vms, secrets, prepares, created, proc>>

\* a variant of the phase change in which the VM is labelled anew
SetPhase_Relabels(v, ph) ==
    /\ v \in vms
    /\ v.status.phase = "" /\ ph \in Phases \ {""}
    /\ vms' = (vms \ {v}) \cup {[v EXCEPT !.status.phase = ph,
                                          !.labels.createdAt =
                                             FormatRFC3339(now)]}
    /\ UNCHANGED <<now, secrets, prepares, created, proc>>

\* the cluster moves a VM to its next phase
SetPhase(v, ph) ==
    /\ v \in vms
    /\ v.status.phase = "" /\ ph \in Phases \ {""}
    /\ vms' = (vms \ {v}) \cup {[v EXCEPT !.status.phase = ph]}
    /\ UNCHANGED <<now, secrets, prepares, created, proc>>

\* the process is gone after its exit; the runner may start another one
Exit(p) ==
    /\ proc[p].done
    /\ proc' = [proc EXCEPT ![p] = IdleProc]
    /\ UNCHANGED <<now, vms, secrets, prepares, created>>

\* A process that has returned from its handler exits before anything else
\* happens: its exit touches neither the cluster nor another process, so no
\* interleaving is lost, and every result is seen in the state it is
\* returned in.
Running == \A q \in Procs : ~proc[q].done

(***************************************************************************)
(* The runner starts one invocation after the other, with any of the       *)
(* inputs.                                                                 *)
(***************************************************************************)
One == {1}

NextSeq ==
    \/ \E p \in One, c \in PrepareChoices :
         Running /\ StartPrepare(p, c[1], c[2])
    \/ \E p \in One : Running /\ PrepareCreateSecret(p)
    \/ \E p \in One : Running /\ PrepareCreateVM(p)
    \/ \E p \in One : Running /\ PrepareRollback(p)
    \/ \E p \in One, c \in CleanupChoices :
         Running /\ StartCleanup(p, c[1], c[2])
    \/ \E p \in One : Running /\ CleanupFind(p)
    \/ \E p \in One : Running /\ CleanupDeleteSecret(p)
    \/ \E p \in One : Running /\ CleanupDeleteVM(p)
    \/ \E p \in One, c \in GCChoices : Running /\ StartGC(p, c[1], c[2])
    \/ \E p \in One : Running /\ GCList(p)
    \/ \E p \in One : Running /\ GCDeleteSecret(p)
    \/ \E p \in One : Running /\ GCDeleteVM(p)
    \/ Running /\ Tick
    \/ \E v \in vms : Running /\ SetPhase(v, "Failed")
    \/ \E p \in One : Exit(p)

SpecSeq == Init /\ [][NextSeq]_vars

(***************************************************************************)
(* Invocations run at the same time: retries of the runner for the job of  *)
(* scenario 1, and gc passes.  No invocation of these reads status.phase   *)
(* (there is no --skip-if), so the phases stay as they are.                *)
(***************************************************************************)
RetryPrepareChoices == {<<ShortLived(Job42), PrepareDefaults>>}

RetryCleanupChoices == {<<Job42, <<>> >>}

RetryGCChoices == {<<FALSE, ParseDuration("3h").d>>}

Next ==
    \/ \E p \in Procs, c \in RetryPrepareChoices :
         Running /\ StartPrepare(p, c[1], c[2])
    \/ \E p \in Procs : Running /\ PrepareCreateSecret(p)
    \/ \E p \in Procs : Running /\ PrepareCreateVM(p)
    \/ \E p \in Procs : Running /\ PrepareRollback(p)
    \/ \E p \in Procs, c \in RetryCleanupChoices :
         Running /\ StartCleanup(p, c[1], c[2])
    \/ \E p \in Procs : Running /\ CleanupFind(p)
    \/ \E p \in Procs : Running /\ CleanupDeleteSecret(p)
    \/ \E p \in Procs : Running /\ CleanupDeleteVM(p)
    \/ \E p \in Procs, c \in RetryGCChoices :
         Running /\ StartGC(p, c[1], c[2])
    \/ \E p \in Procs : Running /\ GCList(p)
    \/ \E p \in Procs : Running /\ GCDeleteSecret(p)
    \/ \E p \in Procs : Running /\ GCDeleteVM(p)
    \/ Running /\ Tick
    \/ \E p \in Procs : Exit(p)

Spec == Init /\ [][Next]_vars

(***************************************************************************)
(* gc alone, over the clusters it can find: VMs whose labels and           *)
(* annotations anyone may have set, the Secrets they refer to, and a       *)
(* Secret whose VM is gone.                                                *)
(***************************************************************************)
\* a VM as gc reads it: vm.Name, vm.Labels, vm.Annotations[RunConfigKey]
ListedVM(name, id, createdAt, ttl, phase, ref) ==
    [NoVM EXCEPT
       !.name = name,
       !.labels = [id |-> id, createdAt |-> createdAt, ttl |-> ttl],
       !.annotations.runConfig =
           IF ref = "" THEN NoAnnotation
           ELSE Marshal([ZeroRunConfig EXCEPT !.SSH.SecretRef = ref]),
       !.spec.userDataSecretRef = ref,
       !.status.phase = phase]

\* a Secret of the namespace, as CreateVMSecret names and labels it
StoredSecret(id) ==
    [name |-> "vm-creds-" \o id,
     labels |-> [id |-> id, type |-> "vm-credentials"],
     data |-> [user |-> "runner", password |-> "pwA", userdata |-> <<>>]]

\* one VM with any labels: with or without the id label, created-at missing,
\* not a timestamp, or the start of the clock, ttl missing, not a duration,
\* or a duration
StrayVMs ==
    {ListedVM("va", id, c, t, ph, ref) :
       id \in {"", "i1"},
       c \in {"", "yesterday", FormatRFC3339(0)},
       t \in {"", "soon", "30m", "1h", "3h"},
       ph \in Phases,
       ref \in {"", StoredSecret("i1").name}}

\* a second VM, of a prepare at the start of the clock
OldVMs ==
    {ListedVM("vb", "i2", FormatRFC3339(0), t, "", StoredSecret("i2").name) :
       t \in {"30m", "3h"}}

\* the Secret whose VM is gone
OrphanSecret == StoredSecret("gone")

\* the Secrets the VMs refer to
ReferredSecrets(vmset) ==
    {StoredSecret(id) :
       id \in {i \in {"i1", "i2"} :
                 \E v \in vmset :
                    v.spec.userDataSecretRef = StoredSecret(i).name}}

\* the invocations of gc: --dry-run or not, --max-age 30m or the default
SweepChoices == BOOLEAN \X {ParseDuration("30m").d, ParseDuration("3h").d}

InitGC ==
    /\ now = 0
    /\ vms \in {a \cup b : a \in {{}} \cup {{v} : v \in StrayVMs},
                           b \in {{}} \cup {{v} : v \in OldVMs}}
    /\ secrets = ReferredSecrets(vms) \cup {OrphanSecret}
    /\ prepares = 0
    /\ created = 0
    /\ proc = [p \in Procs |-> IdleProc]

NextGC ==
    \/ \E p \in One, c \in SweepChoices : Running /\ StartGC(p, c[1], c[2])
    \/ \E p \in One : Running /\ GCList(p)
    \/ \E p \in One : Running /\ GCDeleteSecret(p)
    \/ \E p \in One : Running /\ GCDeleteVM(p)
    \/ Running /\ Tick
    \/ \E p \in One : Exit(p)

SpecGC == InitGC /\ [][NextGC]_vars

(***************************************************************************)
(* cleanup and gc for a VM whose RunConfig annotation anyone may have      *)
(* set: the VM has the id label of job 42 at the start of the clock, and   *)
(* its Secret is there.                                                    *)
(***************************************************************************)
\* an annotation that is no JSON, though the text of rc is in it
Garbled(rc) == [json |-> FALSE, doc |-> rc]

\* the VM with no annotation, with one that does not parse, with one that
\* has an empty secretRef, and with the one prepare writes
AnnotatedVMs ==
    LET id == contextFromEnv(Job42, 0).ID
        rc == [ZeroRunConfig EXCEPT !.SSH.SecretRef = StoredSecret(id).name]
    IN  {[ListedVM("va", id, FormatRFC3339(0), "30m", "",
                   StoredSecret(id).name)
            EXCEPT !.annotations.runConfig = a] :
           a \in {NoAnnotation, Garbled(rc), Marshal(ZeroRunConfig),
                  Marshal(rc)}}

InitReap ==
    /\ now = 0
    /\ vms \in {{v} : v \in AnnotatedVMs}
    /\ secrets = {StoredSecret(contextFromEnv(Job42, 0).ID)}
    /\ prepares = 0
    /\ created = 0
    /\ proc = [p \in Procs |-> IdleProc]

NextReap ==
    \/ \E p \in One, c \in CleanupChoices :
         Running /\ StartCleanup(p, c[1], c[2])
    \/ \E p \in One : Running /\ CleanupFind(p)
    \/ \E p \in One : Running /\ CleanupDeleteSecret(p)
    \/ \E p \in One : Running /\ CleanupDeleteVM(p)
    \/ \E p \in One, c \in SweepChoices : Running /\ StartGC(p, c[1], c[2])
    \/ \E p \in One : Running /\ GCList(p)
    \/ \E p \in One : Running /\ GCDeleteSecret(p)
    \/ \E p \in One : Running /\ GCDeleteVM(p)
    \/ Running /\ Tick
    \/ \E p \in One : Exit(p)

SpecReap == InitReap /\ [][NextReap]_vars

(***************************************************************************)
(* The invocations one after the other, when gc keeps being run and the    *)
(* cluster answers: every process goes on to its exit, a gc pass without   *)
(* --dry-run is started again and again, its List succeeds again and       *)
(* again, and so does its Delete of each VM it goes on to delete.          *)
(***************************************************************************)
\* the names generateName can give: the base name and a suffix
VMNames ==
    {contextFromEnv(j, 0).BaseName \o "x" \o ToString(k) :
       j \in JobIdents, k \in 1..MaxPrepares}

\* the names CreateVMSecret can give
SecretNames ==
    {vmSecret(contextFromEnv(j, t), "", "", <<>>).name :
       j \in JobIdents, t \in Times}

\* a gc pass without --dry-run starts, and has its configuration
GCStarts ==
    \E p \in One, c \in GCChoices :
       /\ Running /\ ~c[1]
       /\ StartGC(p, c[1], c[2])
       /\ proc'[p].pc # "done"

\* the List of a gc pass without --dry-run succeeds
GCLists ==
    \E p \in One :
       /\ Running /\ ~proc[p].flags.DryRun
       /\ GCList(p)
       /\ proc'[p].nitems >= 0

\* the Delete of the VM called name by a gc pass succeeds
GCDeletes(name) ==
    \E p \in One :
       /\ Running /\ proc[p].vm.name = name
       /\ GCDeleteVM(p)
       /\ vms' # vms

Fairness ==
    /\ WF_vars(NextSeq)
    /\ SF_vars(GCStarts)
    /\ SF_vars(GCLists)
    /\ \A name \in VMNames : SF_vars(GCDeletes(name))

SpecFair == Init /\ [][NextSeq]_vars /\ Fairness

(***************************************************************************)
(* WatchJobVM step by step, from the moment prepare has created its VM or  *)
(* cleanup has deleted it.  A step is one call of Watch, or one turn of    *)
(* the select with the code that follows it up to the next blocking point. *)
(***************************************************************************)
MaxEvents == 3      \* the streams of one watcher deliver at most MaxEvents

ReadyIPs == {"10.0.0.5", "10.0.0.6"}

\* what a watch stream can deliver next: the events of WatchEvents, and
\* VM events with another address.  An event of a VM without interfaces is
\* an event with ip = "".
StreamEvents ==
    {e \in WatchEvents : e.type # "Added"}
    \cup [type : {"Modified"}, ip : ReadyIPs, ready : BOOLEAN]

\* the resourceVersion of the VM that the n-th event carries
eventVersion(n) == ToString(100 + n)

\* one entry of what the watcher has done: an event received, a call of the
\* callback (val is nil or the VM of the event), a call of Watch, the call
\* of DialSSH, the return of WatchJobVM
Blank ==
    [k |-> "", type |-> "", val |-> "nil", ip |-> "", ready |-> FALSE,
     rv |-> "", ctx |-> "", res |-> ""]

Received(ev) ==
    [Blank EXCEPT !.k = "event", !.type = ev.type, !.ip = ev.ip,
                  !.ready = ev.ready,
                  !.val = IF ev.type \in {"closed", "", "Error"}
                          THEN "nil" ELSE "vm"]

CalledBack(et, val, ev, res) ==
    [Blank EXCEPT !.k = "fn", !.type = et, !.val = val,
                  !.ip = IF val = "nil" THEN "" ELSE ev.ip,
                  !.ready = IF val = "nil" THEN FALSE ELSE ev.ready,
                  !.res = res]

Opened(rv, ctx, err) ==
    [Blank EXCEPT !.k = "Watch", !.rv = rv, !.ctx = ctx, !.res = err]

Dialled(ip, ctx, err) ==
    [Blank EXCEPT !.k = "DialSSH", !.ip = ip, !.ctx = ctx, !.res = err]

Returned(err) == [Blank EXCEPT !.k = "return", !.res = err]

NilDereference ==
    "panic: runtime error: invalid memory address or nil pointer dereference"

\* the process has panicked inside WatchJobVM: it is gone, with the message
\* of the panic, and WatchJobVM has not returned
Panicked(pr, msg) ==
    Finish([pr EXCEPT !.w.log = Append(@, [Blank EXCEPT !.k = "panic",
                                                        !.res = msg]),
                      !.w.open = 0],
           <<msg>>)

\* a variant of prepare's callback that does not look at the conditions
prepareOnEvent_AnyAddress(et, ev) ==
    IF et = "Error" THEN ""
    ELSE IF ev.ip = "" THEN ""
    ELSE ErrWatchDone

\* the callback prepare gives to WatchJobVM: its result for an event ("" is
\* nil)
prepareOnEvent(et, ev) ==
    IF et = "Error" THEN ""
    ELSE IF ev.ip = "" THEN ""
    ELSE IF ev.ready THEN ErrWatchDone
    ELSE ""

\* the callback cleanup gives to WatchJobVM
cleanupOnEvent(et, ev) ==
    IF et \in {"Error", "Deleted"} THEN ErrWatchDone ELSE ""

\* a callback that gives up with an error of its own: on an Error event, and
\* when the VM is deleted.  Neither prepare nor cleanup has such a callback;
\* it stands for the fn that another caller of WatchJobVM may pass.
failingOnEvent(et, ev) ==
    IF et = "Error" THEN "watch failed"
    ELSE IF et = "Deleted" THEN "vm deleted"
    ELSE IF ev.ip # "" /\ ev.ready THEN ErrWatchDone
    ELSE ""

onEvent(pr, et, ev) ==
    IF pr.cmd \in {"prepare", "wait"} THEN prepareOnEvent(et, ev)
    ELSE IF pr.cmd = "cleanup" THEN cleanupOnEvent(et, ev)
    ELSE failingOnEvent(et, ev)

\* a variant of the result that hands the sentinel to the caller
watchResult_Unchanged(err) == err

\* what WatchJobVM returns when fn returned err: nil for ErrWatchDone, err
\* as it is otherwise
watchResult(err) == IF err = ErrWatchDone THEN "" ELSE err

\* a variant in which initial stays the VM it was
initialAfter_Keeps(rv, n) == rv

\* initial = val: the resourceVersion of initial after the n-th event was
\* delivered to fn, when it was rv before
initialAfter(rv, n) == eventVersion(n)

\* a variant of the reset that keeps the resourceVersion
resetVersion_Keeps(rv) == rv

\* initial.ResourceVersion = "0"
resetVersion(rv) == "0"

\* WatchJobVM returns err (nil is ""): cleanup returns it as it is, prepare
\* returns an error as it is and goes on to the report and the dial
\* otherwise.  The deferred w.Stop() of every stream runs now.
watchReturns(pr, err) ==
    LET back == [pr EXCEPT !.w.log = Append(@, Returned(err)),
                           !.w.open = 0]
    IN  IF err # "" THEN Finish(back, <<err>>)
        ELSE IF pr.cmd = "prepare"
        THEN [back EXCEPT !.pc = "p_dial",
                          !.out = @ \cup readyReport(pr, pr.ip)]
        ELSE Finish(back, <<>>)

\* opts.ResourceVersion at the call of Watch: that of initial, or the one
\* of Selector, which sets none, when initial is nil
optsVersion(w) == IF w.hasInitial THEN w.rv ELSE ""

\* the top of the outer loop: opts.ResourceVersion is that of initial, and
\* Watch is called with context.Background(); its error is returned as it
\* is, and the w.Stop() of a stream it opens is deferred to the return of
\* WatchJobVM
WatchOpen(p) ==
    LET pr == proc[p]
    IN  /\ pr.pc = "w_open"
        /\ \E err \in {""} \cup ApiFailures :
             LET called == [pr EXCEPT
                              !.w.log = Append(@, Opened(optsVersion(pr.w),
                                                  "Background", err))]
             IN  proc' = [proc EXCEPT ![p] =
                    IF err # "" THEN watchReturns(called, err)
                    ELSE [called EXCEPT !.watched = TRUE,
                                        !.w.open = @ + 1,
                                        !.pc = "w_select"]]
        /\ UNCHANGED <<now, vms, secrets, prepares, created>>

\* the select takes an event from the channel of the stream; a stream whose
\* channel is closed has ended
WatchReceive(p, ev) ==
    LET pr == proc[p]
        n == pr.w.events + 1
        got == [pr EXCEPT !.w.events = n,
                          !.w.log = Append(@, Received(ev))]
    IN  /\ pr.pc = "w_select"
        /\ pr.w.events < MaxEvents
        /\ ev \in StreamEvents
        /\ proc' = [proc EXCEPT ![p] =
             IF ev.type \in {"closed", ""}
             THEN [got EXCEPT !.w.open = IF ev.type = "closed" THEN @ - 1
                                         ELSE @,
                              !.pc = "w_open"]
             ELSE IF ev.type = "Error"
             THEN LET res == onEvent(pr, ev.type, ev)
                      told == [got EXCEPT
                                 !.w.log = Append(@, CalledBack(ev.type,
                                                     "nil", ev, res)),
                                 !.out = @ \cup
                                   {"Error watching Virtual Machine instance, retrying."}
                                   \cup (IF pr.cmd = "cleanup"
                                         THEN {"Couldn't wait for Virtual Machine instance to go away, abandoning it"}
                                         ELSE {})]
                  IN  IF res # ""
                      THEN watchReturns(told, watchResult(res))
                      ELSE IF ~pr.w.hasInitial
                      THEN Panicked(told, NilDereference)
                      ELSE [told EXCEPT !.w.rv = resetVersion(@),
                                        !.pc = "w_open"]
             ELSE LET res == onEvent(pr, ev.type, ev)
                      told == [got EXCEPT
                                 !.w.log = Append(@, CalledBack(ev.type,
                                                     "vm", ev, res)),
                                 !.ip = IF pr.cmd = "prepare" THEN ev.ip
                                        ELSE @]
                  IN  IF res # ""
                      THEN watchReturns(told, watchResult(res))
                      ELSE [told EXCEPT !.w.hasInitial = TRUE,
                                        !.w.rv = initialAfter(@, n)]]
        /\ UNCHANGED <<now, vms, secrets, prepares, created>>

\* the select takes ctx.Done()
WatchCtxDone(p) ==
    LET pr == proc[p]
    IN  /\ pr.pc = "w_select"
        /\ pr.w.ctxErr # ""
        /\ proc' = [proc EXCEPT ![p] = watchReturns(pr, pr.w.ctxErr)]
        /\ UNCHANGED <<now, vms, secrets, prepares, created>>

\* the context of the watcher is done: its timeout has passed (the context
\* of the command is context.Background(), which is never cancelled)
CtxDone(p) ==
    LET pr == proc[p]
    IN  /\ pr.pc \in {"w_open", "w_select"}
        /\ pr.w.ctxErr = ""
        /\ proc' = [proc EXCEPT ![p] = [pr EXCEPT !.w.ctxErr = DeadlineErr]]
        /\ UNCHANGED <<now, vms, secrets, prepares, created>>

\* DialSSH to the address of the VM of the last event, and the return of
\* prepare
PrepareDial(p) ==
    LET pr == proc[p]
    IN  /\ pr.pc = "p_dial"
        /\ \E dial \in {"", "ssh: handshake failed", DeadlineErr} :
             proc' = [proc EXCEPT ![p] =
                Finish([pr EXCEPT !.w.log = Append(@, Dialled(pr.ip,
                                                     "timeout", dial))],
                       IF dial = "" THEN <<>> ELSE <<dial>>)]
        /\ UNCHANGED <<now, vms, secrets, prepares, created>>

\* prepare for the job of scenario 1 after its Create of the VM, and
\* cleanup for it after its Delete of the VM
WatchedVM ==
    LET jctx == contextFromEnv(WithImage(Job42), 0)
        secret == vmSecret(jctx, "", "", <<>>)
        rc == [ZeroRunConfig EXCEPT !.SSH.SecretRef = secret.name]
    IN  [instanceTemplate(jctx, rc, secret.name).vm EXCEPT
           !.name = @ \o "x" \o ToString(1)]

Watchers ==
    LET jctx == contextFromEnv(WithImage(Job42), 0)
        base == [IdleProc EXCEPT !.cli = WithImage(Job42), !.jctx = jctx,
                                 !.vm = WatchedVM, !.pc = "w_open",
                                 !.secretName =
                                    WatchedVM.spec.userDataSecretRef,
                                 !.w.hasInitial = TRUE,
                                 !.w.rv = eventVersion(0)]
    IN  {[base EXCEPT !.cmd = "prepare",
                      !.calls = <<Call("Secret.Create", base.secretName, ""),
                                  Call("VM.Create", WatchedVM.name, "")>>],
         [base EXCEPT !.cmd = "cleanup", !.nitems = 1,
                      !.calls = <<Call("VM.List", jctx.ID, ""),
                                  Call("Secret.Delete", base.secretName, ""),
                                  Call("VM.Delete", WatchedVM.name, "")>>]}

InitWatch ==
    /\ now = 0
    /\ prepares = 1
    /\ created = 1
    /\ \E pr \in Watchers :
         /\ proc = [p \in Procs |-> IF p \in One THEN pr ELSE IdleProc]
         /\ vms = IF pr.cmd = "prepare" THEN {WatchedVM} ELSE {}
         /\ secrets = IF pr.cmd = "prepare"
                      THEN {vmSecret(pr.jctx, "", "", <<>>)} ELSE {}

NextWatch ==
    \/ \E p \in One : WatchOpen(p)
    \/ \E p \in One, ev \in StreamEvents : WatchReceive(p, ev)
    \/ \E p \in One : WatchCtxDone(p)
    \/ \E p \in One : CtxDone(p)
    \/ \E p \in One : PrepareDial(p)
    \/ \E p \in One : Exit(p)

SpecWatch == InitWatch /\ [][NextWatch]_vars

\* WatchJobVM for any caller: prepare, cleanup, a caller with the callback
\* that fails, and a caller that has no VM to start from (initial is nil)
\* and waits for the VM to be ready as prepare does
AnyWatchers ==
    Watchers
    \cup {[pr EXCEPT !.cmd = "watch", !.calls = <<>>] :
            pr \in {w \in Watchers : w.cmd = "prepare"}}
    \cup {[pr EXCEPT !.cmd = "wait", !.calls = <<>>,
                     !.w.hasInitial = FALSE, !.w.rv = ""] :
            pr \in {w \in Watchers : w.cmd = "prepare"}}

InitWatchAny ==
    /\ now = 0
    /\ prepares = 1
    /\ created = 1
    /\ \E pr \in AnyWatchers :
         /\ proc = [p \in Procs |-> IF p \in One THEN pr ELSE IdleProc]
         /\ vms = IF pr.cmd = "cleanup" THEN {} ELSE {WatchedVM}
         /\ secrets = IF pr.cmd = "prepare"
                      THEN {vmSecret(pr.jctx, "", "", <<>>)} ELSE {}

SpecWatchAny == InitWatchAny /\ [][NextWatch]_vars

\* The timer of context.WithTimeout fires.
\* The select takes a case that is ready at random, so ctx.Done() is taken
\* in the end when it stays ready; the dial ends, and so does the process.
\* Nothing bounds a call of Watch, which is made with context.Background().
WatchFairness ==
    /\ \A p \in One : WF_vars(CtxDone(p))
    /\ \A p \in One : SF_vars(WatchCtxDone(p))
    /\ \A p \in One : WF_vars(PrepareDial(p))
    /\ \A p \in One : WF_vars(Exit(p))

SpecWatchFair == SpecWatch /\ WatchFairness

(***************************************************************************)
(* The functions of an invocation on their own: a process is about to      *)
(* apply one of them to its arguments, and applies it.                     *)
(***************************************************************************)
\* the process is about to apply f to args
Applying(f, args) == [IdleProc EXCEPT !.fn = [ZeroFn EXCEPT !.f = f,
                                                            !.args = args]]

\* the process has applied its function, which returned ret
WithResult(pr, ret) == [pr EXCEPT !.fn.applied = TRUE, !.fn.ret = ret]

\* the identifiers of the jobs of one runner: runner, project, concurrent,
\* job
JobTuples ==
    {<<"r1", prj, con, job>> :
       prj \in {"1", "11"}, con \in {"0", "10"}, job \in {"2", "3"}}

\* contextFromEnv computes the id of two jobs at the same instant
DigestInputs == {<<a, b, t>> : a \in JobTuples, b \in JobTuples, t \in Times}

MaxPasswordLength == 34   \* the lengths asked for are at most this

\* what rand.Int gives, number after number
RandomStreams ==
    {[i \in 1..(MaxPasswordLength + 1) |-> (m * i + c) % Len(passwordChars)] :
       m \in {0, 1, 7}, c \in {0, 61}}

PasswordInputs ==
    {<<length, rnd, broken>> :
       length \in (0 - 2)..MaxPasswordLength, rnd \in RandomStreams,
       broken \in BOOLEAN}

ApplyGenerateSecurePassword(p) ==
    LET a == proc[p].fn.args
    IN  /\ proc[p].fn.f = "GenerateSecurePassword" /\ ~proc[p].fn.applied
        /\ proc' = [proc EXCEPT ![p] =
              WithResult(@, GenerateSecurePassword(a[1], a[2], a[3]))]
        /\ UNCHANGED <<now, vms, secrets, prepares, created>>

\* the values of --shell, the user of --ssh-user and the password
CloudInitInputs ==
    {<<shell, user, password>> :
       shell \in {"bash", "pwsh", "", "sh", "Bash", "powershell"},
       user \in {"runner", "Administrator"},
       password \in Passwords \cup {"pwB"}}

ApplyGenerateCloudInitUserData(p) ==
    LET a == proc[p].fn.args
    IN  /\ proc[p].fn.f = "GenerateCloudInitUserData" /\ ~proc[p].fn.applied
        /\ proc' = [proc EXCEPT ![p] =
              WithResult(@, GenerateCloudInitUserData(a[1], a[2], a[3]))]
        /\ UNCHANGED <<now, vms, secrets, prepares, created>>

ApplyDigest(p) ==
    LET a == proc[p].fn.args
    IN  /\ proc[p].fn.f = "digest" /\ ~proc[p].fn.applied
        /\ proc' = [proc EXCEPT ![p] =
              WithResult(@, <<digest(a[1], a[3]), digest(a[2], a[3])>>)]
        /\ UNCHANGED <<now, vms, secrets, prepares, created>>

MaxDeletes == 2     \* DeleteSSHSecret is called MaxDeletes times in a row

\* the Secret of a job, and the namespace DeleteSSHSecret finds: without
\* it, with it, with it and another one
DeleteInputs ==
    LET mine == vmSecret(contextFromEnv(WithImage(Job42), 0), "runner",
                         "pwA", <<>>)
        other == vmSecret(contextFromEnv(WithImage(Job43), 0), "runner",
                          "pwA", <<>>)
    IN  {<<mine.name, there>> : there \in {{}, {mine}, {mine, other}}}

\* DeleteSSHSecret(ctx, cfg, namespace, secretName), once more
ApplyDeleteSSHSecret(p) ==
    LET name == proc[p].fn.args[1]
    IN  /\ proc[p].fn.f = "DeleteSSHSecret"
        /\ Len(proc[p].fn.ret) < MaxDeletes
        /\ \E e \in SecretDeleteOutcomes(name) :
             /\ secrets' = IF e = "" THEN {s \in secrets : s.name # name}
                           ELSE secrets
             /\ proc' = [proc EXCEPT ![p] =
                   WithResult(@, Append(proc[p].fn.ret,
                                        [api |-> e,
                                         err |-> DeleteSSHSecret(e)]))]
        /\ UNCHANGED <<now, vms, prepares, created>>

\* what a handler returns, and the value of SYSTEM_FAILURE_EXIT_CODE
ExitInputs ==
    {<<err, code>> :
       err \in {<<>>, <<ForbiddenErr>>, <<DeadlineErr>>},
       code \in {"", "0", "3", "75", "+2", "256", "-1", "abc", "2.5", " 3",
                 "99999999999999999999"}}

ApplyMainExit(p) ==
    LET a == proc[p].fn.args
    IN  /\ proc[p].fn.f = "main" /\ ~proc[p].fn.applied
        /\ proc' = [proc EXCEPT ![p] =
              WithResult(@, <<mainExit(a[1], a[2])>>)]
        /\ UNCHANGED <<now, vms, secrets, prepares, created>>

\* the variables a job can set, with a value for each
PerJob ==
    [CPURequest |-> "2", CPULimit |-> "4", MemoryRequest |-> "2Gi",
     MemoryLimit |-> "4Gi", EphemeralStorageRequest |-> "20Gi",
     EphemeralStorageLimit |-> "50Gi", JobImage |-> "registry/job:2",
     MachineType |-> "q35", Architecture |-> "aarch64", VMTTL |-> "30m"]

\* the flags of a runner that sets every default
AllDefaults ==
    [PrepareDefaults EXCEPT !.DefaultImage = "registry/runner:1",
                            !.DefaultMachineType = "microvm",
                            !.DefaultArchitecture = "x86_64",
                            !.DefaultEphemeralStorageRequest = "10Gi",
                            !.DefaultEphemeralStorageLimit = "10Gi"]

\* a job that sets any of its variables, for a runner with the declared
\* defaults or with every default
MergeInputs ==
    {<<[f \in DOMAIN ZeroCli |-> IF f \in set THEN PerJob[f] ELSE Job42[f]],
       cmd>> :
       set \in SUBSET (DOMAIN PerJob), cmd \in {PrepareDefaults, AllDefaults}}

\* contextFromEnv and the merge of the defaults at the top of prepare
ApplyMergeDefaults(p) ==
    LET a == proc[p].fn.args
    IN  /\ proc[p].fn.f = "mergeDefaults" /\ ~proc[p].fn.applied
        /\ proc' = [proc EXCEPT ![p] =
              WithResult(@, <<mergeDefaults(contextFromEnv(a[1], now),
                                            a[2])>>)]
        /\ UNCHANGED <<now, vms, secrets, prepares, created>>

\* the slots when the first one is pr
Alone(pr) == [p \in Procs |-> IF p \in One THEN pr ELSE IdleProc]

InitFn ==
    /\ now = 0
    /\ vms = {}
    /\ prepares = 0
    /\ created = 0
    /\ \/ \E a \in DigestInputs :
            proc = Alone(Applying("digest", a)) /\ secrets = {}
       \/ \E a \in PasswordInputs :
            proc = Alone(Applying("GenerateSecurePassword", a))
            /\ secrets = {}
       \/ \E a \in CloudInitInputs :
            proc = Alone(Applying("GenerateCloudInitUserData", a))
            /\ secrets = {}
       \/ \E a \in ExitInputs :
            proc = Alone(Applying("main", a)) /\ secrets = {}
       \/ \E a \in MergeInputs :
            proc = Alone(Applying("mergeDefaults", a)) /\ secrets = {}
       \/ \E a \in DeleteInputs :
            proc = Alone(Applying("DeleteSSHSecret", <<a[1]>>))
            /\ secrets = a[2]

NextFn ==
    \/ \E p \in One : ApplyDigest(p)
    \/ \E p \in One : ApplyGenerateSecurePassword(p)
    \/ \E p \in One : ApplyGenerateCloudInitUserData(p)
    \/ \E p \in One : ApplyDeleteSSHSecret(p)
    \/ \E p \in One : ApplyMainExit(p)
    \/ \E p \in One : ApplyMergeDefaults(p)

SpecFn == InitFn /\ [][NextFn]_vars

(***************************************************************************)
(* Properties.  What is known of an invocation is in its slot of `proc`:   *)
(* the calls it has made of the cluster API, in order, with their results. *)
(***************************************************************************)
Cleanups == {p \in Procs : proc[p].cmd = "cleanup"}

Prepared == {p \in Procs : proc[p].cmd = "prepare"}

\* the process has made the call op; made it with success
Issued(pr, op) == \E i \in 1..Len(pr.calls) : pr.calls[i].op = op

Succeeded(pr, op) ==
    \E i \in 1..Len(pr.calls) : pr.calls[i].op = op /\ pr.calls[i].err = ""

\* the process has made no call that creates or deletes an object
NoSideEffect(pr) ==
    \A i \in 1..Len(pr.calls) : pr.calls[i].op = "VM.List"

\* the VMs that prepare created for the four identifiers of cli at a time
\* before t
CreatedBefore(cli, t) ==
    {v \in vms :
       \E t0 \in Times :
          /\ t0 < t
          /\ v.labels.id = digest(<<cli.RunnerID, cli.ProjectID,
                                    cli.ConcurrentID, cli.JobID>>, t0)}

\* C1: the VM that prepare created for a job is the one an invocation
\* started later with the same four identifiers selects by its id label: a
\* cleanup whose List succeeded, for a job that has exactly one such VM,
\* has selected that VM (and so deletes it, unless --skip-if holds it back).
C1_LaterCleanupSelectsTheVM ==
    \A p \in Cleanups :
       LET pr == proc[p]
           mine == CreatedBefore(pr.cli, pr.started)
       IN  (pr.done /\ Succeeded(pr, "VM.List") /\ Cardinality(mine) = 1)
             => \A v \in mine : pr.vm.name = v.name

\* the Secrets that carry the id label of the VM
SecretsOf(v, ss) == {s \in ss : s.labels.id = v.labels.id}

\* C2 as it is stated: at all times every VM has exactly one Secret that
\* carries its id label.
C2_EveryVMHasExactlyOneSecret ==
    \A v \in vms : Cardinality(SecretsOf(v, secrets)) = 1

\* C2: every VM has at most one Secret that carries its id label; the
\* prepare that creates a VM has created the Secret the VM refers to, with
\* success and before the VM, and that Secret carries the VM's id label;
\* and a Secret goes away only in a Secret.Delete that succeeds (cleanup and
\* gc make that call before they delete the VM, so that the VM can be
\* there without its Secret).
C2_SecretFirstAtMostOne ==
    [][/\ \A v \in vms' : Cardinality(SecretsOf(v, secrets')) <= 1
       /\ \A v \in vms' :
            (\A w \in vms : w.name # v.name) =>
               \E p \in Procs :
                  LET c == proc'[p].calls
                  IN  /\ proc'[p].vm.name = v.name
                      /\ v.spec.userDataSecretRef = proc'[p].secretName
                      /\ \E i, j \in 1..Len(c) :
                           /\ i < j
                           /\ c[i] = Call("Secret.Create",
                                          v.spec.userDataSecretRef, "")
                           /\ c[j] = Call("VM.Create", v.name, "")
                      /\ \A s \in secrets' :
                           s.name = v.spec.userDataSecretRef
                             => s.labels.id = v.labels.id
       /\ \A s \in secrets :
            (\A r \in secrets' : r.name # s.name) =>
               \E p \in Procs :
                  LET c == proc'[p].calls
                  IN  /\ Len(c) = Len(proc[p].calls) + 1
                      /\ c[Len(c)] = Call("Secret.Delete", s.name, "")]_vars

\* a prepare has created its VM, and the VM and its one Secret are there
C2_Witness ==
    \E p \in Prepared :
       /\ proc[p].done
       /\ Succeeded(proc[p], "VM.Create")
       /\ \E v \in vms :
            /\ v.name = proc[p].vm.name
            /\ Cardinality(SecretsOf(v, secrets)) = 1

\* C3: prepare calls Secret.Create before VM.Create; when Secret.Create
\* fails, prepare returns an error having made no other call; when VM.Create
\* fails, prepare calls Secret.Delete for the Secret it created and returns
\* the error of VM.Create as it is, whatever that Secret.Delete returned.
C3_PrepareOrderAndRollback ==
    \A p \in Prepared :
       LET pr == proc[p]
           c == pr.calls
       IN  \A i \in 1..Len(c) :
              /\ c[i].op = "VM.Create" =>
                   \E j \in 1..(i - 1) :
                      c[j] = Call("Secret.Create", pr.secretName, "")
              /\ (c[i].op = "Secret.Create" /\ c[i].err # "") =>
                   /\ pr.done /\ pr.err # <<>>
                   /\ Len(c) = 1
              /\ (c[i].op = "VM.Create" /\ c[i].err # "") =>
                   \/ pr.pc = "p_rollback" /\ Len(c) = i
                   \/ /\ Len(c) = i + 1
                      /\ c[i + 1].op = "Secret.Delete"
                      /\ c[i + 1].name = pr.secretName
                      /\ pr.done
                      /\ pr.err = <<c[i].err>>

\* VM.Create failed and the Secret.Delete of the rollback failed as well
C3_Witness ==
    \E p \in Prepared :
       LET c == proc[p].calls
       IN  /\ proc[p].done
           /\ Len(c) = 3
           /\ c[2].op = "VM.Create" /\ c[2].err = ForbiddenErr
           /\ c[3].op = "Secret.Delete" /\ c[3].err = ForbiddenErr
           /\ proc[p].err = <<ForbiddenErr>>

\* the errors of the configuration: the shell, the image, a quantity
ConfigError(err) ==
    \/ ErrContains(err, "unsupported shell")
    \/ ErrContains(err, "must specify a containerdisk image")
    \/ ErrContains(err, "quantities must match the regular expression")

\* C4: a prepare that returns an error of the configuration (a shell that
\* is not supported, no image, a quantity that does not parse) has made no
\* call that creates or deletes an object.
C4_ConfigErrorsBeforeSideEffects ==
    \A p \in Prepared :
       (proc[p].done /\ ConfigError(proc[p].err)) => proc[p].calls = <<>>

\* every text of a VM: its name, labels, annotations and spec
VMStrings(v) ==
    {v.name, v.labels.id, v.labels.createdAt, v.labels.ttl,
     v.annotations.projectID, v.annotations.jobID,
     v.annotations.runConfig.doc.Shell,
     v.annotations.runConfig.doc.SSH.User,
     v.annotations.runConfig.doc.SSH.Password,
     v.annotations.runConfig.doc.SSH.SecretRef,
     v.spec.machineType, v.spec.cpuModel, v.spec.timezone, v.spec.image,
     v.spec.imagePullPolicy, v.spec.imagePullSecret,
     v.spec.userDataSecretRef}
    \cup {r[3] : r \in v.spec.resources}

\* the generated password is in no VM, in nothing a process says, and in no
\* name, label or user field of a Secret
PasswordKeptOut(pw) ==
    /\ \A v \in vms : pw \notin VMStrings(v)
    /\ \A p \in Procs : pw \notin proc[p].out
    /\ \A s \in secrets :
         pw \notin {s.name, s.labels.id, s.labels.type, s.data.user}

\* C5 as it is stated: the generated password is in the cluster only in the
\* password field of the Secret, and in its user-data only as a hash.
C5_PasswordOnlyInPasswordField ==
    \A pw \in Passwords :
       /\ PasswordKeptOut(pw)
       /\ \A s \in secrets :
            /\ s.data.password \in Passwords
            /\ ~DocContains(s.data.userdata, pw)

\* C5: the generated password is in no label, annotation or spec of a VM
\* and in no output; in the cluster it is in the password field of the job's
\* Secret and, for a pwsh job only, as it is in the Windows user-data of
\* that Secret; the Linux user-data holds its hash.
C5_PasswordOnlyInSecret ==
    \A pw \in Passwords :
       /\ PasswordKeptOut(pw)
       /\ \A s \in secrets :
            /\ s.data.password \in Passwords
            /\ DocContains(s.data.userdata, pw) =>
                 /\ s.data.password = pw
                 /\ s.data.userdata = <<"#cloud-config", "users:", "name:",
                                        s.data.user, "passwd:", pw,
                                        "groups: Administrators">>
       /\ \A p \in Prepared :
            proc[p].flags.RunConfig.Shell = "bash" =>
               ~DocContains(proc[p].cloudInitUserData, pw)

\* the VM of a pwsh job is there with its Secret, whose user-data holds the
\* password as it is
C5_Witness ==
    \E v \in vms, s \in secrets :
       /\ v.annotations.runConfig.doc.Shell = "pwsh"
       /\ v.spec.userDataSecretRef = s.name
       /\ s.data.password \in Passwords
       /\ DocContains(s.data.userdata, s.data.password)

\* the Secret the RunConfig annotation of the VM refers to ("" when it
\* yields none)
SecretRefOf(v) ==
    IF Unmarshal(v.annotations.runConfig).err THEN ""
    ELSE Unmarshal(v.annotations.runConfig).rc.SSH.SecretRef

ConfigWarning == "Warning: failed to get kubernetes config for secret cleanup"

\* what C6 says but for when Secret.Delete is made: cleanup makes no
\* Secret.Delete after a VM.Delete, goes on to VM.Delete whatever
\* Secret.Delete returned, and never returns the error of Secret.Delete
CleanupKeepsGoing(pr) ==
    LET c == pr.calls
    IN  /\ \A i, j \in 1..Len(c) :
             (c[i].op = "Secret.Delete" /\ c[j].op = "VM.Delete") => i < j
        /\ \A i \in 1..Len(c) :
             c[i].op = "Secret.Delete" =>
                \/ pr.pc = "c_vmdel" /\ Len(c) = i
                \/ Len(c) > i /\ c[i + 1].op = "VM.Delete"
        /\ ~ErrContains(pr.err, "failed to delete secret")

C7_NotFoundOnDeleteIsSuccess ==
    \A p \in Procs :
       LET pr == proc[p]
           c == pr.calls
       IN  \A i \in 1..Len(c) :
              (c[i].op \in {"VM.Delete", "Secret.Delete"}
               /\ c[i].err = NotFoundErr) =>
                 /\ ~ErrContains(pr.err, NotFoundErr)
                 /\ NotFoundErr \notin pr.out

\* C8: a cleanup whose List returned more than one VM with the job's id
\* returns an error that names the ambiguity, and has made no Delete call
\* and opened no watch stream.
C8_AmbiguousIdIsAnError ==
    \A p \in Cleanups :
       proc[p].nitems > 1 =>
          /\ proc[p].done
          /\ ErrContains(proc[p].err, AmbiguousMsg)
          /\ NoSideEffect(proc[p])
          /\ ~proc[p].watched

\* a cleanup has found two VMs with the id of its job
C8_Witness ==
    \E p \in Cleanups :
       /\ proc[p].done
       /\ proc[p].nitems = 2
       /\ Cardinality(Selected(vms, proc[p].jctx)) = 2

\* C9: a cleanup whose List returned no VM with the job's id returns
\* success, and has made no call that changes the cluster and opened no
\* watch stream; a cleanup whose List failed returns an error, and has made
\* no other call.
C9_NoVMIsSuccessListFailureIsNot ==
    \A p \in Cleanups :
       LET pr == proc[p]
       IN  /\ (Succeeded(pr, "VM.List") /\ pr.nitems = 0) =>
                /\ pr.done /\ pr.err = <<>>
                /\ NoSideEffect(pr)
                /\ ~pr.watched
           /\ (Issued(pr, "VM.List") /\ ~Succeeded(pr, "VM.List")) =>
                /\ pr.done /\ pr.err # <<>>
                /\ Len(pr.calls) = 1
                /\ ~pr.watched

\* a cleanup has found no VM with the id of its job and returned success
C9_Witness ==
    \E p \in Cleanups :
       /\ proc[p].done /\ proc[p].err = <<>>
       /\ Succeeded(proc[p], "VM.List")
       /\ proc[p].nitems = 0

\* the phases of a VirtualMachineInstance
PhaseNames ==
    {"Pending", "Scheduling", "Scheduled", "Running", "Succeeded", "Failed"}

\* an entry P holds when the phase is P, an entry !P when the phase is not P
EntryHolds(entry, phase) ==
    \E P \in PhaseNames :
       \/ entry = <<P>> /\ phase = P
       \/ entry = <<"!", P>> /\ phase # P

\* C10: a cleanup that has found its VM, in a phase for which an entry of
\* --skip-if holds, returns success having made no Delete call and opened
\* no watch stream; when no entry holds, it goes on to delete the VM.
C10_SkipIf ==
    \A p \in Cleanups :
       LET pr == proc[p]
           holds == \E i \in 1..Len(pr.flags.SkipIf) :
                       EntryHolds(pr.flags.SkipIf[i], pr.vm.status.phase)
       IN  pr.nitems = 1 =>
              /\ holds =>
                   /\ pr.done /\ pr.err = <<>>
                   /\ NoSideEffect(pr)
                   /\ ~pr.watched
                   /\ pr.vm \in vms
              /\ ~holds =>
                   \/ pr.pc \in {"c_secret", "c_vmdel"}
                   \/ pr.done /\ Issued(pr, "VM.Delete")

\* a cleanup with --skip-if Succeeded,!Failed has left a VM that had no
\* phase yet
C10_Witness ==
    \E p \in Cleanups :
       /\ proc[p].done
       /\ proc[p].nitems = 1
       /\ Len(proc[p].flags.SkipIf) = 2
       /\ proc[p].vm.status.phase = ""
       /\ NoSideEffect(proc[p])

(***************************************************************************)
(* Properties of gc.                                                       *)
(***************************************************************************)
Sweeps == {p \in Procs : proc[p].cmd = "gc"}

\* the process has made the call op for the object name
IssuedFor(pr, op, name) ==
    \E i \in 1..Len(pr.calls) : pr.calls[i].op = op /\ pr.calls[i].name = name

\* the created-at label is a timestamp, and the time since then, at the
\* clock value t, is more than the ttl: the ttl label when it is a duration,
\* --max-age otherwise
PastItsTTL(v, t, maxAge) ==
    /\ ParseRFC3339(v.labels.createdAt).ok
    /\ LET age == (t - ParseRFC3339(v.labels.createdAt).t)
                    * ParseDuration("1h").d
           ttl == IF ParseDuration(v.labels.ttl).ok
                  THEN ParseDuration(v.labels.ttl).d ELSE maxAge
       IN  age > ttl

\* C11: a gc pass with --dry-run makes no Secret.Delete and no VM.Delete
\* call, whatever the number of expired VMs, and no step taken while it runs
\* changes the VMs or the Secrets of the cluster.
C11_DryRunDeletesNothing ==
    [][\A p \in Sweeps :
          proc[p].flags.DryRun =>
             /\ NoSideEffect(proc'[p])
             /\ vms' = vms
             /\ secrets' = secrets]_vars

\* a pass with --dry-run has counted an expired VM, which is still there
\* with its Secret
C11_Witness ==
    \E p \in Sweeps :
       /\ proc[p].done /\ proc[p].flags.DryRun
       /\ proc[p].deletedCount = 2
       /\ \A i \in 1..2 :
            /\ proc[p].listed[i] \in vms
            /\ \E s \in secrets :
                 s.name = proc[p].listed[i].spec.userDataSecretRef

C13_MaxAgeOverridesTTL ==
    \A p \in Sweeps :
       LET pr == proc[p]
       IN  (pr.done /\ ~pr.flags.DryRun) =>
              \A i \in 1..Len(pr.listed) :
                 (/\ ParseRFC3339(pr.listed[i].labels.createdAt).ok
                  /\ (pr.gcNow - ParseRFC3339(pr.listed[i].labels.createdAt).t)
                       * ParseDuration("1h").d > pr.flags.MaxAge)
                   => IssuedFor(pr, "VM.Delete", pr.listed[i].name)

\* the gc pass that takes the step (one pass runs at a time)
Sweeping(p) == p \in Sweeps /\ proc'[p] # proc[p]

LeftBehind(name) ==
    /\ \E s \in secrets : s.name = name
    /\ \A v \in vms : v.spec.userDataSecretRef # name
    /\ \A p \in Procs : proc[p].cmd = "idle"

C16_GCReapsLeftVM ==
    /\ [](\A p \in Prepared :
             Succeeded(proc[p], "VM.Create") =>
                ~Issued(proc[p], "Secret.Delete")
                /\ ~Issued(proc[p], "VM.Delete"))
    /\ [](\A p \in Sweeps :
             LET c == proc[p].calls
             IN  \A i \in 1..Len(c) :
                    (c[i].op = "VM.Delete" /\ c[i].err = "") =>
                       /\ \A v \in vms : v.name # c[i].name
                       /\ (c[i - 1].op = "Secret.Delete" /\ c[i - 1].err = "")
                            => \A s \in secrets : s.name # c[i - 1].name)
    /\ \A name \in VMNames :
          (\E v \in vms :
              /\ v.name = name
              /\ PastItsTTL(v, now, ParseDuration("3h").d))
            ~> (\A v \in vms : v.name # name)

\* a prepare has created its VM and failed, leaving the VM and the Secret,
\* and the VM is past its ttl
C16_WitnessLeft ==
    \E p \in Prepared :
       /\ proc[p].done /\ proc[p].err # <<>>
       /\ Succeeded(proc[p], "VM.Create")
       /\ proc[p].vm \in vms
       /\ PastItsTTL(proc[p].vm, now, ParseDuration("3h").d)
       /\ \E s \in secrets : s.name = SecretRefOf(proc[p].vm)

(***************************************************************************)
(* Properties of the watcher.  What WatchJobVM has done is in w.log of its *)
(* process, in order.                                                      *)
(***************************************************************************)
\* the positions of the entries of kind k in a log
At(log, k) == {i \in 1..Len(log) : log[i].k = k}

\* the VM of the entry has an address and is Ready
IsReady(e) == e.val = "vm" /\ e.ip # "" /\ e.ready

\* WatchJobVM has returned nil
WatchSucceeded(log) == \E i \in At(log, "return") : log[i].res = ""

\* C17: the watch of prepare returns nil only right after the callback was
\* given an event whose VM has an address and the condition Ready=True; after
\* an event whose VM lacks either, the callback returns nil and the watcher
\* does not return, unless its context is done; DialSSH is called at most
\* once, only after the watch returned nil, and with the address of the event
\* that ended the watch; a prepare that returns after such a watch has
\* called it.
C17_ReadyEndsWatchOneDial ==
    \A p \in Prepared :
       LET log == proc[p].w.log
       IN  /\ \A i \in At(log, "return") :
                log[i].res = "" =>
                   /\ i > 2
                   /\ log[i - 1].k = "fn" /\ IsReady(log[i - 1])
                   /\ log[i - 1].res = ErrWatchDone
                   /\ log[i - 2].k = "event"
                   /\ log[i - 2].ip = log[i - 1].ip
                   /\ log[i - 2].ready
           /\ \A i \in At(log, "fn") :
                ~IsReady(log[i]) =>
                   /\ log[i].res = ""
                   /\ i < Len(log) =>
                        \/ log[i + 1].k \in {"event", "Watch"}
                        \/ /\ log[i + 1].k = "return"
                           /\ log[i + 1].res = DeadlineErr
           /\ Cardinality(At(log, "DialSSH")) <= 1
           /\ \A i \in At(log, "DialSSH") :
                /\ i > 2
                /\ log[i - 1].k = "return" /\ log[i - 1].res = ""
                /\ log[i].ip = log[i - 2].ip
                /\ log[i].ip # ""
           /\ (proc[p].done /\ WatchSucceeded(log)) =>
                 At(log, "DialSSH") # {}
           /\ (proc[p].done /\ proc[p].err = <<>> /\ log # <<>>) =>
                 WatchSucceeded(log)

\* prepare has returned nil: its watch was given a VM with an address that
\* was not Ready, then a VM that was Ready at another address, and the dial
\* went to that one
C17_Witness ==
    \E p \in Prepared :
       LET log == proc[p].w.log
       IN  /\ proc[p].done /\ proc[p].err = <<>>
           /\ \E i \in At(log, "fn"), j \in At(log, "DialSSH") :
                /\ i < j
                /\ log[i].ip # "" /\ ~log[i].ready
                /\ log[j].ip # log[i].ip
                /\ log[j].res = ""

\* the processes that have called WatchJobVM
Watching == {p \in Procs : proc[p].w.log # <<>>}

\* C18: an Error event is followed at once by the call of the callback with
\* (Error, nil).  When the callback returns nil, the next thing the watcher
\* does is one call of Watch, with resourceVersion "0", and it makes no
\* second call of Watch without another event; until then it is at the top
\* of its loop with resourceVersion "0".  When the callback returns the
\* sentinel, the watcher returns nil and calls Watch no more.
C18_ErrorEventResumesOnce ==
    \A p \in Watching :
       LET log == proc[p].w.log
           n == Len(log)
       IN  \A i \in At(log, "event") :
              log[i].type = "Error" =>
                 /\ i < n
                 /\ log[i + 1].k = "fn" /\ log[i + 1].type = "Error"
                 /\ log[i + 1].val = "nil"
                 /\ log[i + 1].res \in {"", ErrWatchDone}
                 /\ log[i + 1].res = "" =>
                      /\ n = i + 1 =>
                           proc[p].pc = "w_open" /\ proc[p].w.rv = "0"
                      /\ n > i + 1 =>
                           log[i + 2].k = "Watch" /\ log[i + 2].rv = "0"
                      /\ n > i + 2 => log[i + 3].k # "Watch"
                 /\ log[i + 1].res = ErrWatchDone =>
                      /\ n > i + 1
                      /\ log[i + 2] = Returned("")
                      /\ \A j \in At(log, "Watch") : j < i

\* after events of the VM, an Error event that the callback of prepare let
\* pass, and the stream opened again from resourceVersion "0"
C18_Witness ==
    \E p \in Watching :
       LET log == proc[p].w.log
       IN  \E i \in At(log, "event") :
              /\ log[i].type = "Error"
              /\ i > 1 /\ log[i - 1].k = "fn" /\ log[i - 1].val = "vm"
              /\ Len(log) > i + 1
              /\ log[i + 1].res = ""
              /\ log[i + 2] = Opened("0", "Background", "")

\* C19: after the stream is closed, and after an Error event the callback
\* let pass, the watcher calls Watch again; after a call of Watch that
\* failed when the stream was opened again, it calls Watch once more; and it
\* returns an error after such failures only when the deadline of its
\* context has passed, and the error is that of the context.
C19_TransportFailureRetried ==
    \A p \in Watching :
       LET log == proc[p].w.log
           n == Len(log)
       IN  /\ \A i \in At(log, "event") :
                (log[i].type \in {"closed", ""} /\ i < n) =>
                   log[i + 1].k = "Watch"
           /\ \A i \in At(log, "fn") :
                (log[i].type = "Error" /\ log[i].res = "" /\ i < n) =>
                   log[i + 1].k = "Watch"
           /\ \A i \in At(log, "Watch") :
                (i > 1 /\ log[i].res # "" /\ i < n) =>
                   log[i + 1].k = "Watch"
           /\ \A i \in At(log, "return") :
                (i > 2 /\ log[i].res # "") =>
                   proc[p].w.ctxErr # "" /\ log[i].res = proc[p].w.ctxErr

\* C20: every call the watcher and the dial make of the cluster or the VM is
\* made under the context with the deadline; and once that context is done,
\* WatchJobVM returns the error of the context in the end.
C20_DeadlineEndsWatch ==
    /\ [](\A p \in Watching :
             LET log == proc[p].w.log
             IN  \A i \in At(log, "Watch") \cup At(log, "DialSSH") :
                    log[i].ctx = "timeout")
    /\ \A p \in One :
          (proc[p].w.ctxErr # "" /\ proc[p].pc \in {"w_open", "w_select"})
            ~> (\E i \in At(proc[p].w.log, "return") :
                   proc[p].w.log[i].res = DeadlineErr)

(***************************************************************************)
(* Properties of the objects and of the functions.                         *)
(***************************************************************************)
\* the calls of the cluster API the invocations make
KnownCalls ==
    {"VM.List", "VM.Create", "VM.Delete", "Secret.Create", "Secret.Delete"}

Applied(p, f) == proc[p].fn.f = f /\ proc[p].fn.applied

\* C22: at one instant, two different tuples of identifiers get different
\* ids, also when the strings of the two tuples are the same when they are
\* put one after the other.
C22_DigestTellsTuplesApart ==
    \A p \in Procs :
       Applied(p, "digest") =>
          LET a == proc[p].fn.args
              r == proc[p].fn.ret
          IN  a[1] # a[2] => r[1] # r[2]

\* the characters of [a-zA-Z0-9]
Lower == {"a", "b", "c", "d", "e", "f", "g", "h", "i", "j", "k", "l", "m",
          "n", "o", "p", "q", "r", "s", "t", "u", "v", "w", "x", "y", "z"}
Upper == {"A", "B", "C", "D", "E", "F", "G", "H", "I", "J", "K", "L", "M",
          "N", "O", "P", "Q", "R", "S", "T", "U", "V", "W", "X", "Y", "Z"}
Digits == {"0", "1", "2", "3", "4", "5", "6", "7", "8", "9"}

\* the greater of two numbers
Max(a, b) == IF a >= b THEN a ELSE b

\* the processes that have a password from GenerateSecurePassword
Generated ==
    {p \in Procs : /\ Applied(p, "GenerateSecurePassword")
                   /\ proc[p].fn.ret.err = <<>>}

\* C23 as it is stated: the password has max(len, 32) characters, each of
\* [a-zA-Z0-9].
C23_LengthIsMaxOfLenAnd32 ==
    \A p \in Generated :
       LET pw == proc[p].fn.ret.password
       IN  /\ Len(pw) = Max(proc[p].fn.args[1], passwordLength)
           /\ \A i \in 1..Len(pw) : pw[i] \in Lower \cup Upper \cup Digits

\* C23, amended: the password has max(len, 32) characters when len <= 0 or
\* len >= 32, and len characters, which is less, when 0 < len < 32; each
\* character is of [a-zA-Z0-9].
C23_LengthIsLenOrDefault ==
    \A p \in Generated :
       LET pw == proc[p].fn.ret.password
           len == proc[p].fn.args[1]
       IN  /\ (len <= 0 \/ len >= passwordLength) =>
                 Len(pw) = Max(len, passwordLength)
           /\ (0 < len /\ len < passwordLength) =>
                 Len(pw) = len /\ Len(pw) < Max(len, passwordLength)
           /\ \A i \in 1..Len(pw) : pw[i] \in Lower \cup Upper \cup Digits

\* a password of 16 characters was asked for and returned, with letters of
\* both cases and digits in it
C23_Witness ==
    \E p \in Generated :
       LET pw == proc[p].fn.ret.password
       IN  /\ proc[p].fn.args[1] = 16 /\ Len(pw) = 16
           /\ \E i, j, k \in 1..Len(pw) :
                pw[i] \in Lower /\ pw[j] \in Upper /\ pw[k] \in Digits

\* C24: the password has the length asked for when that is more than 0 (16
\* gives 16) and 32 characters otherwise, and each character is one of the
\* 62 different characters of passwordChars.
C24_LengthAsRequested ==
    /\ Len(passwordChars) = 62
    /\ \A i, j \in 1..Len(passwordChars) :
          passwordChars[i] = passwordChars[j] => i = j
    /\ \A p \in Generated :
          LET pw == proc[p].fn.ret.password
              len == proc[p].fn.args[1]
          IN  /\ len > 0 => Len(pw) = len
              /\ len = 16 => Len(pw) = 16
              /\ len <= 0 => Len(pw) = 32
              /\ \A i \in 1..Len(pw) :
                   \E k \in 1..Len(passwordChars) : pw[i] = passwordChars[k]

\* a password was asked for with length 0 and one with a negative length,
\* and 32 characters were returned, the last of passwordChars among them
C24_Witness ==
    \E p \in Generated :
       LET pw == proc[p].fn.ret.password
       IN  /\ proc[p].fn.args[1] <= 0 /\ Len(pw) = 32
           /\ \E i \in 1..Len(pw) : pw[i] = passwordChars[62]

\* the settings of the Linux user-data
LinuxSettings ==
    {"sudo: ALL=(ALL) NOPASSWD:ALL", "shell: /bin/bash", "ssh_pwauth: true",
     "chpasswd:"}

C26_SecretDeleteIdempotent ==
    \A p \in Procs :
       Applied(p, "DeleteSSHSecret") =>
          LET r == proc[p].fn.ret
              name == proc[p].fn.args[1]
          IN  /\ \A i \in 1..Len(r) :
                   /\ r[i].api \in {"", NotFoundErr} <=> r[i].err = <<>>
                   /\ r[i].err # <<>> =>
                        /\ ErrContains(r[i].err, "failed to delete secret")
                        /\ ErrContains(r[i].err, r[i].api)
              /\ r[Len(r)].err = <<>> => \A s \in secrets : s.name # name
              /\ \A i \in 2..Len(r) :
                   r[i - 1].err = <<>> =>
                      /\ r[i].api # ""
                      /\ r[i].api = NotFoundErr => r[i].err = <<>>

\* the Secret was there; DeleteSSHSecret was called twice and returned nil
\* twice, the second time on NotFound; another Secret is still there
C26_Witness ==
    \E p \in Procs :
       /\ Applied(p, "DeleteSSHSecret")
       /\ Len(proc[p].fn.ret) = 2
       /\ proc[p].fn.ret[1] = [api |-> "", err |-> <<>>]
       /\ proc[p].fn.ret[2] = [api |-> NotFoundErr, err |-> <<>>]
       /\ secrets # {}

\* the texts that are decimal integers, with the integer
Integral ==
    {<<"0", 0>>, <<"3", 3>>, <<"75", 75>>, <<"+2", 2>>, <<"256", 256>>,
     <<"-1", 0 - 1>>}

\* the variable holds an integer
IsIntegral(code) == \E d \in Integral : d[1] = code

IntegerOf(code) == (CHOOSE d \in Integral : d[1] = code)[2]

\* C27 as it is stated: after an error of the handler the exit status is 2,
\* or the integer that SYSTEM_FAILURE_EXIT_CODE holds; a value that is no
\* integer is ignored; without an error the exit status is 0.
C27_ExitStatusIsTheOverride ==
    \A p \in Procs :
       Applied(p, "main") =>
          LET err == proc[p].fn.args[1]
              code == proc[p].fn.args[2]
              status == proc[p].fn.ret[1]
          IN  /\ err = <<>> => status = 0
              /\ (err # <<>> /\ ~IsIntegral(code)) => status = 2
              /\ (err # <<>> /\ IsIntegral(code)) => status = IntegerOf(code)

\* C27, amended: as stated when the integer is one of 0..255; of an integer
\* outside 0..255 the exit status is what is left modulo 256 (256 gives 0,
\* -1 gives 255).
C27_ExitStatusIsTheOverrideInRange ==
    \A p \in Procs :
       Applied(p, "main") =>
          LET err == proc[p].fn.args[1]
              code == proc[p].fn.args[2]
              status == proc[p].fn.ret[1]
          IN  /\ err = <<>> => status = 0
              /\ (err # <<>> /\ ~IsIntegral(code)) => status = 2
              /\ (err # <<>> /\ IsIntegral(code)) =>
                    /\ IntegerOf(code) \in 0..255 => status = IntegerOf(code)
                    /\ status \in 0..255
                    /\ \E k \in {0 - 1, 0, 1} :
                         IntegerOf(code) = status + 256 * k

\* a handler returned an error while SYSTEM_FAILURE_EXIT_CODE was 75, and
\* the exit status is 75
C27_Witness ==
    \E p \in Procs :
       /\ Applied(p, "main")
       /\ proc[p].fn.args = <<<<DeadlineErr>>, "75">>
       /\ proc[p].fn.ret = <<75>>

\* the settings of C28: the field of the job context, the variable of the
\* job, the default of the runner
Settings ==
    {<<"CPURequest", "CPURequest", "DefaultCPURequest">>,
     <<"CPULimit", "CPULimit", "DefaultCPULimit">>,
     <<"MemoryRequest", "MemoryRequest", "DefaultMemoryRequest">>,
     <<"MemoryLimit", "MemoryLimit", "DefaultMemoryLimit">>,
     <<"EphemeralStorageRequest", "EphemeralStorageRequest",
       "DefaultEphemeralStorageRequest">>,
     <<"EphemeralStorageLimit", "EphemeralStorageLimit",
       "DefaultEphemeralStorageLimit">>,
     <<"Image", "JobImage", "DefaultImage">>,
     <<"MachineType", "MachineType", "DefaultMachineType">>,
     <<"Architecture", "Architecture", "DefaultArchitecture">>}

\* C28: after the merge each setting has the value of the job when that is
\* not empty, and the default of the runner otherwise; the ttl is that of the
\* job, or 3h when the job gives none.
C28_PerJobValueBeforeDefault ==
    \A p \in Procs :
       Applied(p, "mergeDefaults") =>
          LET job == proc[p].fn.args[1]
              cmd == proc[p].fn.args[2]
              jctx == proc[p].fn.ret[1]
          IN  /\ \A x \in Settings :
                   /\ job[x[2]] # "" => jctx[x[1]] = job[x[2]]
                   /\ job[x[2]] = "" => jctx[x[1]] = cmd[x[3]]
              /\ job.VMTTL = "" => jctx.TTL = "3h"
              /\ job.VMTTL # "" => jctx.TTL = job.VMTTL

\* a job that sets its CPU request, its image and nothing else, for a runner
\* with every default: the two values of the job and the other defaults
C28_Witness ==
    \E p \in Procs :
       /\ Applied(p, "mergeDefaults")
       /\ proc[p].fn.args[2] = AllDefaults
       /\ proc[p].fn.ret[1].CPURequest = PerJob.CPURequest
       /\ proc[p].fn.ret[1].Image = PerJob.JobImage
       /\ proc[p].fn.ret[1].CPULimit = AllDefaults.DefaultCPULimit
       /\ proc[p].fn.ret[1].MachineType = AllDefaults.DefaultMachineType
       /\ proc[p].fn.ret[1].TTL = "3h"

(***************************************************************************)
(* Properties of the streams and of the return of WatchJobVM.              *)
(***************************************************************************)
\* the number of events received up to entry i
EventsUpTo(log, i) == Cardinality({j \in 1..i : log[j].k = "event"})

\* the calls of the callback before entry i that returned nil
Handled(log, i) == {j \in 1..(i - 1) : log[j].k = "fn" /\ log[j].res = ""}

\* the resourceVersion the claim gives the stream opened after entry i: "0"
\* when the last event handled was an Error, that of the last VM delivered
\* otherwise, that of the initial VM when no event was handled
VersionAfter(log, i) ==
    IF Handled(log, i) = {} THEN eventVersion(0)
    ELSE LET j == CHOOSE m \in Handled(log, i) :
                     \A o \in Handled(log, i) : o <= m
         IN  IF log[j].val = "vm" THEN eventVersion(EventsUpTo(log, j))
             ELSE "0"

\* the events that say the stream has ended
Ended(log) ==
    {i \in At(log, "event") : log[i].type \in {"closed", ""}}

\* C29: after a stream is closed, or gives an event of empty type, the
\* watcher is at the top of its loop, and the next thing it does is a call of
\* Watch, not a call of the callback; that call carries the resourceVersion
\* of the last VM delivered to the callback, of the initial VM when none was
\* delivered, and "0" when the last event handled was an Error.
C29_ClosedStreamReopened ==
    \A p \in Watching :
       LET log == proc[p].w.log
       IN  \A i \in Ended(log) :
              IF i = Len(log) THEN proc[p].pc = "w_open"
              ELSE /\ log[i + 1].k = "Watch"
                   /\ log[i + 1].rv = VersionAfter(log, i)

\* a VM was delivered to the callback, the stream was closed, and the next
\* stream was opened at the version of that VM
C29_Witness ==
    \E p \in Watching :
       LET log == proc[p].w.log
       IN  \E i \in Ended(log) :
              /\ i < Len(log)
              /\ i > 2
              /\ log[i - 1].k = "fn" /\ log[i - 1].val = "vm"
              /\ log[i + 1].k = "Watch"
              /\ log[i + 1].rv = eventVersion(1)

\* the results of the callback other than nil and the sentinel
Failed(log) ==
    {i \in At(log, "fn") : log[i].res \notin {"", ErrWatchDone}}

\* C30: WatchJobVM returns nil exactly when its last act was a call of the
\* callback that returned ErrWatchDone; when the callback returns another
\* error, the watcher returns that error at once; and once it has returned it
\* receives no event, calls the callback no more and opens no stream.
C30_ReturnFollowsCallback ==
    \A p \in Watching :
       LET log == proc[p].w.log
       IN  /\ \A i \in At(log, "return") :
                /\ log[i].res = "" <=>
                      /\ i > 1
                      /\ log[i - 1].k = "fn"
                      /\ log[i - 1].res = ErrWatchDone
                /\ \A j \in (i + 1)..Len(log) :
                      log[j].k \notin {"fn", "Watch", "event", "return"}
           /\ \A i \in Failed(log) :
                /\ i < Len(log)
                /\ log[i + 1].k = "return"
                /\ log[i + 1].res = log[i].res

\* the callback has returned an error of its own for a VM that was deleted,
\* and the watcher has returned it
C30_Witness ==
    \E p \in Watching :
       LET log == proc[p].w.log
       IN  \E i \in Failed(log) :
              /\ log[i].type = "Deleted"
              /\ log[i + 1].k = "return"
              /\ log[i + 1].res = "vm deleted"
              /\ proc[p].err = <<"vm deleted">>

(***************************************************************************)
(* Properties of the watch of cleanup and of gc.                           *)
(***************************************************************************)
\* the processes of cleanup inside WatchJobVM, or back from it
CleanupWatching == {p \in Watching : proc[p].cmd = "cleanup"}

\* C31: in the watch of cleanup the callback ends the watch with success on
\* a Deleted event and on an Error event, and lets Added and Modified events
\* pass; the watch returns nil only so, and otherwise returns the error of
\* the deadline, after the deadline; and a cleanup that is in its watch
\* returns from it in the end.
C31_CleanupWatchEnds ==
    /\ [](\A p \in CleanupWatching :
             LET log == proc[p].w.log
             IN  /\ \A i \in At(log, "fn") :
                      IF log[i].type \in {"Deleted", "Error"}
                      THEN log[i + 1] = Returned("")
                      ELSE log[i].res = ""
                 /\ \A i \in At(log, "return") :
                      \/ /\ log[i].res = ""
                         /\ log[i - 1].k = "fn"
                         /\ log[i - 1].type \in {"Deleted", "Error"}
                      \/ /\ log[i].res = DeadlineErr
                         /\ proc[p].w.ctxErr = DeadlineErr)
    /\ \A p \in One :
          (proc[p].cmd = "cleanup" /\ proc[p].pc \in {"w_open", "w_select"})
            ~> (proc[p].pc \notin {"w_open", "w_select"})

\* the passes without --dry-run whose List succeeded
Passes ==
    {p \in Sweeps : ~proc[p].flags.DryRun /\ proc[p].calls # <<>>
                    /\ proc[p].calls[1].err = ""}

\* C32: in a gc pass without --dry-run, the VM.Delete of a VM whose annotation
\* names a Secret comes right after the Secret.Delete of that Secret, failed
\* or not, and a Secret.Delete is followed by the VM.Delete of its VM; a pass
\* whose List succeeded returns nil, and by then it has made the VM.Delete
\* call for every expired VM of its List, whatever calls failed before.
C32_SecretFirstPassGoesOn ==
    \A p \in Passes :
       LET pr == proc[p]
           n == Len(pr.calls)
       IN  /\ \A i \in 2..n :
                /\ pr.calls[i].op = "VM.Delete" =>
                     \A j \in 1..Len(pr.listed) :
                        (/\ pr.listed[j].name = pr.calls[i].name
                         /\ SecretRefOf(pr.listed[j]) # "") =>
                           /\ pr.calls[i - 1].op = "Secret.Delete"
                           /\ pr.calls[i - 1].name = SecretRefOf(pr.listed[j])
                /\ pr.calls[i].op = "Secret.Delete" =>
                     IF i = n THEN pr.pc = "gc_vmdel"
                     ELSE /\ pr.calls[i + 1].op = "VM.Delete"
                          /\ \E j \in 1..Len(pr.listed) :
                               /\ pr.listed[j].name = pr.calls[i + 1].name
                               /\ SecretRefOf(pr.listed[j]) = pr.calls[i].name
           /\ pr.done =>
                /\ pr.err = <<>>
                /\ pr.items = <<>>
                /\ \A j \in 1..Len(pr.listed) :
                     PastItsTTL(pr.listed[j], pr.gcNow, pr.flags.MaxAge) =>
                        IssuedFor(pr, "VM.Delete", pr.listed[j].name)

\* a pass has returned nil after the Secret.Delete and the VM.Delete of the
\* first VM of its List failed, and has deleted the second VM and its Secret
C32_Witness ==
    \E p \in Passes :
       LET pr == proc[p]
       IN  /\ pr.done /\ pr.err = <<>>
           /\ Len(pr.calls) = 5
           /\ pr.calls[2].op = "Secret.Delete" /\ pr.calls[2].err # ""
           /\ pr.calls[3].op = "VM.Delete" /\ pr.calls[3].err # ""
           /\ pr.calls[3].name = pr.listed[1].name
           /\ pr.calls[4].op = "Secret.Delete" /\ pr.calls[4].err = ""
           /\ pr.calls[5].op = "VM.Delete" /\ pr.calls[5].err = ""
           /\ pr.calls[5].name = pr.listed[2].name

\* the passes, with or without --dry-run, that have returned after their
\* List succeeded
Counted ==
    {p \in Sweeps : proc[p].done /\ proc[p].calls # <<>>
                    /\ proc[p].calls[1].err = ""}

\* the items of the List of the pass that satisfy P
Items(pr, P(_)) == {j \in 1..Len(pr.listed) : P(pr.listed[j])}

\* the created-at label is missing or no timestamp
Undated(v) == v.labels.createdAt = "" \/ ~ParseRFC3339(v.labels.createdAt).ok

\* the numbers of C33 for a pass that has returned: the VMs deleted (with
\* --dry-run: expired), skipped, still valid, and those whose VM.Delete failed
Tally(pr) ==
    LET expired(v) == PastItsTTL(v, pr.gcNow, pr.flags.MaxAge)
        valid(v) == ~Undated(v) /\ ~expired(v)
    IN  [deleted |-> IF pr.flags.DryRun
                     THEN Cardinality(Items(pr, expired))
                     ELSE Cardinality({i \in 1..Len(pr.calls) :
                                          /\ pr.calls[i].op = "VM.Delete"
                                          /\ pr.calls[i].err = ""}),
         skipped |-> Cardinality(Items(pr, Undated)),
         valid |-> Cardinality(Items(pr, valid)),
         failed |-> Cardinality({i \in 1..Len(pr.calls) :
                                    /\ pr.calls[i].op = "VM.Delete"
                                    /\ pr.calls[i].err # ""})]

\* C33: at the end of a gc pass the deleted count is the number of VM.Delete
\* calls of the pass that succeeded (with --dry-run, the number of expired
\* VMs), the skipped count is the number of listed VMs whose created-at label
\* is missing or no timestamp, and deleted, skipped and still valid VMs
\* together are the VMs of the List.
C33_EveryVMCountedOnce ==
    \A p \in Counted :
       LET pr == proc[p]
       IN  /\ pr.deletedCount = Tally(pr).deleted
           /\ pr.skippedCount = Tally(pr).skipped
           /\ pr.deletedCount + pr.skippedCount + Tally(pr).valid
                = Len(pr.listed)

\* C33 as the code has it: the counts are as said, and a listed VM is
\* deleted, skipped, still valid, or one whose VM.Delete failed, which no
\* count holds.
C33_EveryVMCountedOnceOrFailed ==
    \A p \in Counted :
       LET pr == proc[p]
       IN  /\ pr.deletedCount = Tally(pr).deleted
           /\ pr.skippedCount = Tally(pr).skipped
           /\ pr.deletedCount + pr.skippedCount + Tally(pr).valid
                + Tally(pr).failed = Len(pr.listed)

\* a pass has returned after one VM.Delete that succeeded and one that
\* failed: it reports one VM deleted and none skipped for a List of two
C33_Witness ==
    \E p \in Counted :
       LET pr == proc[p]
       IN  /\ ~pr.flags.DryRun
           /\ Len(pr.listed) = 2
           /\ Tally(pr).failed = 1
           /\ pr.deletedCount = 1
           /\ pr.skippedCount = 0

(***************************************************************************)
(* Properties of the references to the Secret.                             *)
(***************************************************************************)
\* the secretRef that the annotation of the VM holds as JSON ("" when it
\* holds none)
AnnotatedRef(v) ==
    IF v.annotations.runConfig.json
    THEN v.annotations.runConfig.doc.SSH.SecretRef ELSE ""

\* the VMs that the invocation has set out to delete: the one cleanup found
\* and did not skip, the expired ones of the List of a gc pass without
\* --dry-run
ToDelete(pr) ==
    IF pr.cmd = "cleanup"
    THEN IF "Deleting Virtual Machine instance" \in pr.out THEN {pr.vm}
         ELSE {}
    ELSE IF pr.cmd = "gc" /\ ~pr.flags.DryRun
    THEN {pr.listed[j] : j \in {k \in 1..Len(pr.listed) :
               PastItsTTL(pr.listed[k], pr.gcNow, pr.flags.MaxAge)}}
    ELSE {}

\* C34: every Secret.Delete of cleanup and of gc names the secretRef that
\* the annotation of a VM it set out to delete holds; for a VM whose
\* annotation is missing, does not parse or has an empty secretRef, the
\* invocation makes no Secret.Delete, whatever the VM's cloud-init volume
\* refers to, and it makes the VM.Delete call all the same.
C34_SecretOnlyByAnnotation ==
    \A p \in Cleanups \cup Sweeps :
       LET pr == proc[p]
       IN  /\ \A i \in 1..Len(pr.calls) :
                pr.calls[i].op = "Secret.Delete" =>
                   \E v \in ToDelete(pr) :
                      /\ AnnotatedRef(v) # ""
                      /\ AnnotatedRef(v) = pr.calls[i].name
           /\ \A v \in ToDelete(pr) :
                AnnotatedRef(v) = "" =>
                   /\ pr.pc \notin {"c_secret", "gc_secret"}
                   /\ pr.done => IssuedFor(pr, "VM.Delete", v.name)

\* cleanup has deleted a VM whose annotation does not parse: it made no
\* Secret.Delete, and the Secret of the VM's cloud-init volume is still there
C34_Witness ==
    \E p \in Cleanups :
       LET pr == proc[p]
       IN  /\ pr.done
           /\ ~pr.vm.annotations.runConfig.json
           /\ pr.vm.annotations.runConfig.doc.SSH.SecretRef # ""
           /\ Succeeded(pr, "VM.Delete")
           /\ ~IssuedFor(pr, "Secret.Delete", pr.vm.spec.userDataSecretRef)
           /\ \E s \in secrets : s.name = pr.vm.spec.userDataSecretRef

\* the prepares that have created their VM
Creators == {p \in Prepared : Succeeded(proc[p], "VM.Create")}

\* C35: the secretRef in the RunConfig annotation of a VM, the
\* userDataSecretRef of its cloud-init volume and the name of the Secret that
\* its prepare created are one string, vm-creds- followed by the id label of
\* the VM; the ssh.password of the annotation is empty, and so is the
\* password of the RunConfig whose SSH part prepare gives to DialSSH.
C35_OneNameNoPassword ==
    /\ \A v \in vms :
         /\ v.annotations.runConfig.json
         /\ AnnotatedRef(v) = "vm-creds-" \o v.labels.id
         /\ v.spec.userDataSecretRef = AnnotatedRef(v)
         /\ v.annotations.runConfig.doc.SSH.Password = ""
    /\ \A p \in Creators :
         LET pr == proc[p]
         IN  /\ \E i \in 1..Len(pr.calls) :
                  /\ pr.calls[i] = Call("Secret.Create", pr.rc.SSH.SecretRef, "")
                  /\ pr.rc.SSH.SecretRef = "vm-creds-" \o pr.jctx.ID
             /\ \A v \in vms :
                  v.labels.id = pr.jctx.ID =>
                     AnnotatedRef(v) = pr.rc.SSH.SecretRef
             /\ pr.rc.SSH.Password = ""

\* a prepare that was started with --ssh-password has created its VM and has
\* dialled the address of the VM; the VM and its Secret are there
C35_Witness ==
    \E p \in Creators :
       LET pr == proc[p]
       IN  /\ pr.done /\ pr.err = <<>> /\ pr.ip # ""
           /\ pr.flags.RunConfig.SSH.Password # ""
           /\ \E v \in vms, s \in secrets :
                /\ v.labels.id = pr.jctx.ID
                /\ s.name = AnnotatedRef(v)
                /\ s.data.password = pr.randomPassword

(***************************************************************************)
(* Properties of the watch of prepare.                                     *)
(***************************************************************************)
\* the processes of prepare inside WatchJobVM, or back from it
PrepareWatching == {p \in Watching : proc[p].cmd = "prepare"}

\* C36: a Deleted event does not end the watch of prepare with success,
\* whatever the status of the deleted VM: the callback returns nil for it,
\* the watcher does not return nil after it, and prepare does not report the
\* VM ready nor dial it.
C36_DeletedNeverReady ==
    \A p \in PrepareWatching :
       LET log == proc[p].w.log
       IN  \A i \in At(log, "fn") :
              log[i].type = "Deleted" =>
                 /\ log[i].res = ""
                 /\ i < Len(log) => log[i + 1] # Returned("")
                 /\ "Virtual Machine instance is ready." \notin proc[p].out
                 /\ At(log, "DialSSH") = {}

\* C37: once prepare has created its VM it returns in the end; when its
\* watch ends with an error, that is the error of the deadline, after the
\* timeout has elapsed; and DialSSH is called under the context of the same
\* timeout.
C37_PrepareEndsByDeadline ==
    /\ [](\A p \in PrepareWatching :
             LET log == proc[p].w.log
             IN  /\ \A i \in At(log, "return") :
                      log[i].res # "" =>
                         /\ log[i].res = DeadlineErr
                         /\ proc[p].w.ctxErr = DeadlineErr
                 /\ \A i \in At(log, "DialSSH") : log[i].ctx = "timeout")
    /\ \A p \in One :
          (proc[p].cmd = "prepare"
             /\ proc[p].pc \in {"w_open", "w_select", "p_dial"})
            ~> (proc[p].pc \notin {"w_open", "w_select", "p_dial"})

(***************************************************************************)
(* Properties of the streams of the watcher.                               *)
(***************************************************************************)
\* C38: the watcher has at most one stream that is open; when it is about
\* to open a stream it has none, the one before being stopped or ended; and
\* when it has returned it has none.
C38_OneStreamAtATime ==
    \A p \in Watching :
       /\ proc[p].w.open <= 1
       /\ proc[p].pc = "w_open" => proc[p].w.open = 0
       /\ At(proc[p].w.log, "return") # {} => proc[p].w.open = 0

\* the callers of WatchJobVM that gave it no initial VM
Waiting == {p \in Watching : proc[p].cmd = "wait"}

\* the Error events of the log that came before any VM event and that the
\* callback let pass
EarlyErrors(log) ==
    {i \in At(log, "fn") :
       /\ log[i].type = "Error" /\ log[i].res = ""
       /\ \A j \in 1..i : log[j].k = "fn" => log[j].val = "nil"}

\* C39: a watcher that was given no initial VM does not crash; after an
\* Error event that comes before any VM event and that the callback lets
\* pass, the next thing it does is a call of Watch with resourceVersion "0".
C39_ErrorWithoutInitialVM ==
    \A p \in Waiting :
       LET log == proc[p].w.log
       IN  /\ At(log, "panic") = {}
           /\ \A i \in EarlyErrors(log) :
                IF i = Len(log) THEN proc[p].pc = "w_open"
                ELSE /\ log[i + 1].k = "Watch"
                     /\ log[i + 1].rv = "0"

====
